---------------------------- MODULE Spec2Model ----------------------------
(***************************************************************************)
(* A model of the Pokemon TCG Live log visualizer's core pipeline:         *)
(*   - parseLog / parseSetup / parseTurns (src/parser), run line by line,  *)
(*   - calculateStatistics (src/statistics/calculator.ts),                 *)
(*   - reconstructDecks (services/deckReconstructor).                      *)
(* A log line is a record naming the shape of its text; the regular        *)
(* expressions of PATTERNS and SKIP_PATTERNS are tabulated on these shapes *)
(* (the concrete text of every shape is given where it is defined).        *)
(***************************************************************************)
EXTENDS Integers, Sequences, FiniteSets, TLC

VARIABLES
  lines,          \* parseLog: splitLogIntoLines(logText), the log being parsed
  pc,             \* control point of parseLog / reconstructDecks
  eventCounter,   \* utils.ts: the module-level counter of generateEventId
  su,             \* parseSetup: its local variables
  setupResult,    \* parseLog: the SetupResult returned by parseSetup
  tp,             \* parseTurns: its local variables
  result,         \* parseLog: the ParseResult returned
  previous,       \* the caller: the ParseResult of an earlier call on the same text
  matchData,      \* reconstructDecks: its argument
  dk,             \* reconstructDecks: locals of the current player's pass
  playerDecks,    \* reconstructDecks: the PlayerDecks being built
  sprites,        \* the sprite service: spriteCache, pendingRequests, promises, calls
  cardFetcher,    \* cardFetcher.ts: cardCache, requestQueue, isProcessingQueue, batches, calls
  app             \* AppProvider: the reducer state and the sprite fetches it awaits

vars == <<lines, pc, eventCounter, su, setupResult, tp, result, previous, matchData, dk, playerDecks,
          sprites, cardFetcher, app>>
parserVars == <<lines, eventCounter, su, setupResult, tp, result, previous>>
deckVars == <<matchData, dk, playerDecks>>
apiVars == <<sprites, cardFetcher, app>>

(***************************************************************************)
(* JavaScript values                                                       *)
(***************************************************************************)
\* `null` of a `string | null` local
Null == "null"
\* `undefined`: a missing property; as a property key it reads "undefined"
Undefined == "undefined"

\* a string primitive handed to code that reads properties of it
JsString(s) == [t |-> "string", s |-> s]
\* a Player object { username, isFirst }
JsPlayer(u, f) == [t |-> "object", username |-> u, isFirst |-> f]
\* p.isFirst used as a condition: a string primitive has no such property (undefined, falsy)
IsFirstOf(p) == IF p.t = "object" THEN p.isFirst ELSE FALSE
\* p.username: undefined on a string primitive
UsernameOf(p) == IF p.t = "object" THEN p.username ELSE Undefined

\* Array.prototype.find: the first element satisfying Test, or undefined (<<>> here)
RECURSIVE FindFrom(_, _, _)
FindFrom(arr, Test(_), k) ==
  IF k > Len(arr) THEN <<>>
  ELSE IF Test(arr[k]) THEN <<arr[k]>>
  ELSE FindFrom(arr, Test, k + 1)
Find(arr, Test(_)) == FindFrom(arr, Test, 1)

\* list.includes(x)
Includes(list, x) == \E k \in 1..Len(list) : list[k] = x

Last(s) == s[Len(s)]

(***************************************************************************)
(* Log lines.  k names the shape of the text, p and q are usernames (\w+), *)
(* x and y card / Pokemon names, a an attack or ability name, n the first  *)
(* number of the line, m the second, cs the names listed on a bullet line. *)
(***************************************************************************)
Line(k, p, q, x, y, n) ==
  [k |-> k, p |-> p, q |-> q, x |-> x, y |-> y, a |-> "", n |-> n, m |-> 0, cs |-> <<>>]

\* "Setup"
SetupHeader == Line("Setup", "", "", "", "", 0)
\* "[playerName]'s Turn"
TurnMarker == Line("TurnStart", "", "", "", "", 0)
\* "" (or only white space)
Blank == Line("Blank", "", "", "", "", 0)
\* "p chose heads for the opening coin flip."
ChoseCoin(p) == Line("ChoseCoin", p, "", "", "", 0)
\* "p won the coin toss."
WonToss(p) == Line("WonToss", p, "", "", "", 0)
\* "p decided to go first."  /  "p decided to go second."
DecidedGo(p, c) == Line("DecidedGo", p, "", "", c, 0)
\* "p drew n cards for the opening hand."
OpeningHand(p, n) == Line("OpeningHand", p, "", "", "", n)
\* "- 7 drawn cards."
DrawnCardsNote == Line("DrawnCardsNote", "", "", "", "", 7)
\* "p took a mulligan."
TookMulligan(p) == Line("TookMulligan", p, "", "", "", 0)
\* "p drew n more cards because q took at least 1 mulligan."
MulliganDraw(p, n, q) == Line("MulliganDraw", p, q, "", "", n)
\* "p played x to the Active Spot."  /  "p played x to the Bench."   (loc: "Active Spot" | "Bench")
PlayedPokemon(p, x, loc) == Line("PlayedPokemon", p, "", x, loc, 0)
\* "p drew a card."
DrewACard(p) == Line("DrewACard", p, "", "", "", 0)
\* "p drew x."   (x starts with a capital letter)
DrewCard(p, x) == Line("DrewCard", p, "", x, "", 0)
\* "p drew n cards."
DrewCards(p, n) == Line("DrewCards", p, "", "", "", n)
\* "p drew x and played it to the Bench."
DrewAndPlayed(p, x) == Line("DrewAndPlayed", p, "", x, "", 0)
\* "p drew x and played it to the Bench, then flipped n coins, and m landed on heads"
DrewPlayedFlipped(p, x, n, m) == [Line("DrewPlayedFlipped", p, "", x, "", n) EXCEPT !.m = m]
\* "   • c1, c2, ..."
Bullet(cs) == [Line("Bullet", "", "", "", "", 0) EXCEPT !.cs = cs]
\* "- Damage breakdown:"
DamageBreakdownHeader == Line("DamageBreakdownHeader", "", "", "", "", 0)
\* "   • Base damage: n damage"   (read as a list of names it is the one name after the bullet)
DamageBullet(n) == [Line("DamageBullet", "", "", "", "", n) EXCEPT !.cs = <<"Base damage: n damage">>]
\* "A card was added to p's hand."
CardAdded(p) == Line("CardAdded", p, "", "", "", 0)
\* "p ended their turn."
EndedTurn(p) == Line("EndedTurn", p, "", "", "", 0)
\* "p's x used a on q's y for n damage."
Attack(p, x, a, q, y, n) == [Line("Attack", p, q, x, y, n) EXCEPT !.a = a]
\* "p's x used a."
UsedAbility(p, x, a) == [Line("UsedAbility", p, "", x, "", 0) EXCEPT !.a = a]
\* "q's x was Knocked Out!"
KnockedOut(q, x) == Line("KnockedOut", q, "", x, "", 0)
\* "p took a Prize card."
TookPrize(p) == Line("TookPrize", p, "", "", "", 1)
\* "p took n Prize cards."
TookPrizes(p, n) == Line("TookPrizes", p, "", "", "", n)
\* "p's x is now in the Active Spot."
SwitchedIn(p, x) == Line("SwitchedIn", p, "", x, "", 0)
\* "p evolved x to y on the Bench."
Evolved(p, x, y) == Line("Evolved", p, "", x, y, 0)
\* "p played x to the Stadium spot."
PlayedStadium(p, x) == Line("PlayedStadium", p, "", x, "", 0)
\* "p played x."
PlayedTrainer(p, x) == Line("PlayedTrainer", p, "", x, "", 0)
\* "p attached x to y in the Active Spot."
Attached(p, x, y) == Line("Attached", p, "", x, y, 0)
\* "p flipped n coins, and m landed on heads."
FlippedCoins(p, n, m) == [Line("FlippedCoins", p, "", "", "", n) EXCEPT !.m = m]
\* "- p put n damage counters on q's x."
PutCounters(p, n, q, x) == Line("PutCounters", p, q, x, "", n)
\* "p put n damage counters on q's x."
PutCountersPlain(p, n, q, x) == Line("PutCountersPlain", p, q, x, "", n)
\* "Opponent's deck ran out of cards. w wins."
DeckOut(w) == Line("DeckOut", w, "", "", "", 0)
\* "w took all Prize cards."
TookAllPrizes(w) == Line("TookAllPrizes", w, "", "", "", 0)
\* "p conceded"
Conceded(p) == Line("Conceded", p, "", "", "", 0)
\* "You conceded. w wins."
YouConceded(w) == Line("YouConceded", w, "", "", "", 0)
\* "Opponent conceded. w wins."
OpponentConceded(w) == Line("OpponentConceded", w, "", "", "", 0)

(***************************************************************************)
(* patterns.ts and utils.ts                                                *)
(***************************************************************************)
\* SKIP_PATTERNS.some(pattern => pattern.test(line)), on the shapes above
shouldSkipLine(line) ==
  line.k \in {"Blank", "DrawnCardsNote", "Bullet", "DamageBreakdownHeader", "DamageBullet", "CardAdded"}

\* the entries of PATTERNS whose regular expression matches the text of the line
Matching(line) ==
  CASE line.k = "ChoseCoin" -> {"coinFlipChoice"}
    [] line.k = "WonToss" -> {"coinFlipWinner"}
    [] line.k = "DecidedGo" -> {"goFirst"}
    [] line.k = "OpeningHand" -> {"openingHand", "drewCards"}
    [] line.k = "TookMulligan" -> {"mulligan"}
    [] line.k = "MulliganDraw" -> {"mulliganDraw"}
    [] line.k = "PlayedPokemon" -> {"playedPokemon", "playedTrainer"}
    [] line.k = "DrewCard" -> {"drewCard"}
    [] line.k = "DrewCards" -> {"drewCards"}
    [] line.k = "DrewAndPlayed" -> {"drewCard", "drewAndPlayed", "drewSpecificCard"}
    [] line.k = "DrewPlayedFlipped" -> {"drewCard", "coinFlip", "drewAndPlayed", "drewSpecificCard"}
    [] line.k = "Attack" -> {"attack", "usedAbility"}
    [] line.k = "UsedAbility" -> {"usedAbility"}
    [] line.k = "KnockedOut" -> {"knockout"}
    [] line.k = "TookPrize" -> {"prizeTaken"}
    [] line.k = "SwitchedIn" -> {"switchedIn"}
    [] line.k = "Evolved" -> {"evolved"}
    [] line.k = "PlayedStadium" -> {"playedStadium", "playedTrainer"}
    [] line.k = "PlayedTrainer" -> {"playedTrainer"}
    [] line.k = "Attached" -> {"attachedEnergy"}
    [] line.k = "FlippedCoins" -> {"coinFlip"}
    [] line.k = "DeckOut" -> {"deckOut"}
    [] line.k = "TookAllPrizes" -> {"prizeWin"}
    [] line.k = "Conceded" -> {"concede"}
    [] line.k = "YouConceded" -> {"concede"}
    [] line.k = "OpponentConceded" -> {"concede"}
    [] line.k = "Bullet" -> {"cardList"}
    [] line.k = "DamageBullet" -> {"cardList"}
    [] line.k = "DamageBreakdownHeader" -> {"damageBreakdown"}
    [] OTHER -> {}

\* line.match(pattern) !== null
matchLine(line, pattern) == pattern \in Matching(line)

isTurnStart(line) == line.k = "TurnStart"
isSetupHeader(line) == line.k = "Setup"

\* parseLocation(text)
parseLocation(locationText) == IF locationText = "Active Spot" THEN "active" ELSE "bench"


(***************************************************************************)
(* Game events.  description holds the words of the description string     *)
(* that later code reads back (numbers are left out of it).                *)
(***************************************************************************)
GameEvent(id, turn, player, type, description, details, timestamp) ==
  [id |-> id, turn |-> turn, player |-> player, type |-> type,
   description |-> description, details |-> details, timestamp |-> timestamp]

\* details.f ?? d
OrElse(details, f, d) == IF f \in DOMAIN details THEN details[f] ELSE d

(***************************************************************************)
(* setupParser.ts                                                          *)
(***************************************************************************)
\* the locals of parseSetup before its loop
SetupLocals ==
  [i |-> 0, player1 |-> Null, player2 |-> Null, coinFlipWinner |-> Null,
   coinFlipChoice |-> Null, whoGoesFirst |-> Null, events |-> <<>>,
   pokemonInMatch |-> <<>>, timestamp |-> 0, setupEndIndex |-> 0, inSetup |-> FALSE]

\* if (!player1) player1 = name; else if (name !== player1 && !player2) player2 = name
NotePlayer(s, name) ==
  IF s.player1 = Null THEN [s EXCEPT !.player1 = name]
  ELSE IF name # s.player1 /\ s.player2 = Null THEN [s EXCEPT !.player2 = name]
  ELSE s

\* setupParser.ts createDrawEvent
SetupDrawEvent(id, player, cardCount, turn, timestamp) ==
  GameEvent(id, turn, player, "draw", <<player, "drew", "cards">>, [cardCount |-> cardCount], timestamp)

\* setupParser.ts createMulliganEvent
SetupMulliganEvent(id, player, turn, timestamp) ==
  GameEvent(id, turn, player, "mulligan", <<player, "took a mulligan">>, <<>>, timestamp)

\* createPlayPokemonEvent (the same in setupParser.ts and eventParser.ts)
PlayPokemonEvent(id, player, pokemonName, location, turn, timestamp) ==
  GameEvent(id, turn, player, "play_pokemon", <<player, "played", pokemonName, "to the", location>>,
            [pokemonName |-> pokemonName, location |-> location], timestamp)

\* list with x pushed unless already included
AddIfNew(list, x) == IF Includes(list, x) THEN list ELSE Append(list, x)

\* the event appended to `events` by one line of the setup section
PushSetupEvent(s, ev) ==
  [s EXCEPT !.events = Append(@, ev), !.timestamp = @ + 1]

\* one iteration of the loop of parseSetup on a line that is neither the header
\* nor a turn marker, inside the setup section; ec is the event counter before it
SetupLine(s, line, ec) ==
  IF matchLine(line, "coinFlipChoice") THEN NotePlayer(s, line.p)
  ELSE IF matchLine(line, "coinFlipWinner") THEN
    NotePlayer([s EXCEPT !.coinFlipWinner = line.p], line.p)
  ELSE IF matchLine(line, "goFirst") THEN
    NotePlayer([s EXCEPT !.whoGoesFirst = line.p, !.coinFlipChoice = line.y], line.p)
  ELSE IF matchLine(line, "openingHand") THEN
    PushSetupEvent(NotePlayer(s, line.p), SetupDrawEvent(ec + 1, line.p, line.n, 0, s.timestamp))
  ELSE IF matchLine(line, "mulligan") THEN
    PushSetupEvent(s, SetupMulliganEvent(ec + 1, line.p, 0, s.timestamp))
  ELSE IF matchLine(line, "mulliganDraw") THEN
    PushSetupEvent(s, SetupDrawEvent(ec + 1, line.p, line.n, 0, s.timestamp))
  ELSE IF matchLine(line, "playedPokemon") THEN
    PushSetupEvent([s EXCEPT !.pokemonInMatch = AddIfNew(@, line.x)],
                   PlayPokemonEvent(ec + 1, line.p, line.x, parseLocation(line.y), 0, s.timestamp))
  ELSE s

\* a SetupResult that marks each player first when the player is the one who goes first
SetupSuccess_EachCompared(s) ==
    LET coinFlipChoice == IF s.coinFlipChoice = Null THEN "first" ELSE s.coinFlipChoice
        firstPlayer == IF s.whoGoesFirst # Null THEN s.whoGoesFirst ELSE s.coinFlipWinner
    IN [players |-> <<JsPlayer(s.player1, firstPlayer = s.player1),
                      JsPlayer(s.player2, firstPlayer = s.player2)>>,
        coinFlipWinner |-> s.coinFlipWinner,
        coinFlipChoice |-> coinFlipChoice,
        events |-> s.events,
        pokemonInMatch |-> s.pokemonInMatch,
        setupEndIndex |-> s.setupEndIndex]

\* the SetupResult parseSetup returns when its two validations pass
SetupSuccess(s) ==
    LET coinFlipChoice == IF s.coinFlipChoice = Null THEN "first" ELSE s.coinFlipChoice
        firstPlayer == IF s.whoGoesFirst # Null THEN s.whoGoesFirst ELSE s.coinFlipWinner
        isPlayer1First == firstPlayer = s.player1
    IN [players |-> <<JsPlayer(s.player1, isPlayer1First), JsPlayer(s.player2, ~isPlayer1First)>>,
        coinFlipWinner |-> s.coinFlipWinner,
        coinFlipChoice |-> coinFlipChoice,
        events |-> s.events,
        pokemonInMatch |-> s.pokemonInMatch,
        setupEndIndex |-> s.setupEndIndex]

\* a parseSetup that validates the coin flip before the players
SetupReturn_CoinFlipFirst(s) ==
  IF s.coinFlipWinner = Null THEN
    [error |-> "Invalid log format: missing coin flip information"]
  ELSE IF s.player1 = Null \/ s.player2 = Null THEN
    [error |-> "Could not identify players in the log"]
  ELSE SetupSuccess(s)

\* the value parseSetup returns after its loop
SetupReturn(s) ==
  IF s.player1 = Null \/ s.player2 = Null THEN
    [error |-> "Could not identify players in the log"]
  ELSE IF s.coinFlipWinner = Null THEN
    [error |-> "Invalid log format: missing coin flip information"]
  ELSE SetupSuccess(s)

isSetupError(r) == "error" \in DOMAIN r

(***************************************************************************)
(* trainerCategories.ts                                                    *)
(***************************************************************************)
\* the card and Pokemon names that occur in the logs and event lists of this model
PokemonNames == {"Charmander", "Charmeleon", "Charizard", "Pikachu ex"}
TrainerNames == {"Arven", "Nest Ball", "Air Balloon", "Artazon"}
EnergyNames == {"Basic Fire Energy", "Jet Energy"}

\* trainerName in TRAINER_CATEGORIES
isKnownTrainer(trainerName) == trainerName \in TrainerNames

\* getTrainerCategory on the names above: the known mapping first, then the name
\* patterns: none is a tool or item pattern; the capitalised-words pattern
\* /^[A-Z][a-z]+('s)?(\s+[A-Z][a-z]+)*$/ gives 'supporter'; the rest is 'item'
getTrainerCategory(trainerName) ==
  CASE trainerName = "Arven" -> "supporter"
    [] trainerName = "Nest Ball" -> "item"
    [] trainerName = "Air Balloon" -> "tool"
    [] trainerName = "Artazon" -> "stadium"
    [] trainerName \in {"Charmander", "Charmeleon", "Charizard", "Basic Fire Energy", "Jet Energy"} -> "supporter"
    [] OTHER -> "item"

(***************************************************************************)
(* eventParser.ts                                                          *)
(***************************************************************************)
\* createDrawEvent: cardNames is <<>> for undefined
DrawEvent(id, player, cardCount, cardNames, turn, timestamp) ==
  GameEvent(id, turn, player, "draw", <<player, "drew", "cards">>,
            IF cardNames # <<>> THEN [cardCount |-> cardCount, cardNames |-> cardNames]
            ELSE [cardCount |-> cardCount],
            timestamp)

EvolveEvent(id, player, fromPokemon, toPokemon, turn, timestamp) ==
  GameEvent(id, turn, player, "evolve", <<player, "evolved", fromPokemon, "to", toPokemon>>,
            [pokemonName |-> toPokemon, evolvedFrom |-> fromPokemon], timestamp)

EnergyEvent(id, player, energyName, targetPokemon, turn, timestamp) ==
  GameEvent(id, turn, player, "attach_energy", <<player, "attached", energyName, "to", targetPokemon>>,
            [pokemonName |-> targetPokemon], timestamp)

TrainerEvent(id, player, trainerName, category, turn, timestamp) ==
  GameEvent(id, turn, player, "play_trainer", <<player, "played", trainerName>>,
            [trainerName |-> trainerName, trainerCategory |-> category], timestamp)

AbilityEvent(id, player, pokemonName, abilityName, turn, timestamp) ==
  GameEvent(id, turn, player, "use_ability", <<player, pokemonName, "used", abilityName>>,
            [pokemonName |-> pokemonName, attackName |-> abilityName], timestamp)

\* createAttackEvent: damageBreakdown is <<>> for null
AttackEvent(id, player, attackingPokemon, attackName, targetPokemon, damage, damageBreakdown, turn, timestamp) ==
  GameEvent(id, turn, player, "attack", <<player, attackingPokemon, "used", attackName>>,
            IF damageBreakdown # <<>> THEN
              [attackingPokemon |-> attackingPokemon, attackName |-> attackName,
               targetPokemon |-> targetPokemon, damage |-> damage, damageBreakdown |-> damageBreakdown]
            ELSE
              [attackingPokemon |-> attackingPokemon, attackName |-> attackName,
               targetPokemon |-> targetPokemon, damage |-> damage],
            timestamp)

KnockoutEvent(id, causingPlayer, knockedOutPokemon, turn, timestamp) ==
  GameEvent(id, turn, causingPlayer, "knockout", <<knockedOutPokemon, "was Knocked Out">>,
            [knockedOutPokemon |-> knockedOutPokemon], timestamp)

PrizeTakenEvent(id, player, turn, timestamp) ==
  GameEvent(id, turn, player, "prize_taken", <<player, "took a Prize card">>,
            [prizesTaken |-> 1], timestamp)

SwitchEvent(id, player, pokemonName, turn, timestamp) ==
  GameEvent(id, turn, player, "switch", <<player, pokemonName, "is now in the Active Spot">>,
            [pokemonName |-> pokemonName, location |-> "active"], timestamp)

CoinFlipEvent(id, player, headsCount, tailsCount, turn, timestamp) ==
  GameEvent(id, turn, player, "coin_flip", <<"Flipped coins">>,
            [headsCount |-> headsCount, tailsCount |-> tailsCount], timestamp)

WinEvent(id, winner, winCondition, turn, timestamp) ==
  GameEvent(id, turn, winner, "win", <<winner, "wins">>, [winCondition |-> winCondition], timestamp)

\* lookAheadForCardNames(lines, currentIndex), from 0-based index j on; <<>> for undefined
RECURSIVE LookAheadFrom(_, _, _)
LookAheadFrom(ls, j, stop) ==
  IF j >= stop THEN <<>>
  ELSE IF matchLine(ls[j + 1], "cardList") THEN ls[j + 1].cs \o LookAheadFrom(ls, j + 1, stop)
  ELSE IF ~shouldSkipLine(ls[j + 1]) /\ ls[j + 1].k # "Blank" THEN <<>>
  ELSE LookAheadFrom(ls, j + 1, stop)

\* a lookahead that reads on to the end of the log
lookAheadForCardNames_ToTheEnd(ls, currentIndex) ==
  LookAheadFrom(ls, currentIndex + 1, Len(ls))

lookAheadForCardNames(ls, currentIndex) ==
  LookAheadFrom(ls, currentIndex + 1,
                IF currentIndex + 5 < Len(ls) THEN currentIndex + 5 ELSE Len(ls))

\* the locals of parseTurns before its loop
TurnLocals(startIndex, players) ==
  LET found1 == Find(players, IsFirstOf)
      firstPlayer == IF found1 # <<>> THEN found1[1] ELSE players[1]
      NotFirst(p) == ~IsFirstOf(p)
      found2 == Find(players, NotFirst)
      secondPlayer == IF found2 # <<>> THEN found2[1] ELSE players[2]
      orderedPlayers == <<UsernameOf(firstPlayer), UsernameOf(secondPlayer)>>
  IN [i |-> startIndex, turns |-> <<>>, allEvents |-> <<>>, pokemonInMatch |-> <<>>,
      winner |-> Null, winCondition |-> Null, currentTurn |-> <<>>, turnNumber |-> 0,
      timestamp |-> 0, orderedPlayers |-> orderedPlayers, currentPlayer |-> orderedPlayers[1],
      lastDamageBreakdown |-> <<>>, turnPlayerIndex |-> 0]

\* a save that keeps a turn without events too
SaveTurn_EmptyToo(t) ==
  IF t.currentTurn # <<>> THEN Append(t.turns, t.currentTurn[1]) ELSE t.turns

\* if (currentTurn && currentTurn.events.length > 0) turns.push(currentTurn)
SaveTurn(t) ==
  IF t.currentTurn # <<>> /\ Len(t.currentTurn[1].events) > 0
  THEN Append(t.turns, t.currentTurn[1]) ELSE t.turns

\* a turn start that forgets the pending damage breakdown
TurnStart_ClearsBreakdown(t) ==
  LET player == t.orderedPlayers[(t.turnPlayerIndex % 2) + 1]
  IN [t EXCEPT !.turns = SaveTurn(t),
               !.turnNumber = @ + 1,
               !.currentPlayer = player,
               !.turnPlayerIndex = @ + 1,
               !.currentTurn = <<[number |-> t.turnNumber + 1, player |-> player, events |-> <<>>]>>,
               !.timestamp = 0,
               !.lastDamageBreakdown = <<>>]

\* the turn-marker branch of the loop of parseTurns
TurnStart(t) ==
  LET player == t.orderedPlayers[(t.turnPlayerIndex % 2) + 1]
  IN [t EXCEPT !.turns = SaveTurn(t),
               !.turnNumber = @ + 1,
               !.currentPlayer = player,
               !.turnPlayerIndex = @ + 1,
               !.currentTurn = <<[number |-> t.turnNumber + 1, player |-> player, events |-> <<>>]>>,
               !.timestamp = 0]

\* the skip-line branch: a bullet line holding 'damage' is kept as the pending breakdown
SkipLine(t, line) ==
  IF line.k = "DamageBullet" THEN [t EXCEPT !.lastDamageBreakdown = <<line.n>>] ELSE t

\* orderedPlayers.find((p) => p !== knockedOutPlayer) || currentPlayer
CausingPlayer(t, knockedOutPlayer) ==
  LET Other(p) == p # knockedOutPlayer
      found == Find(t.orderedPlayers, Other)
  IN IF found # <<>> /\ found[1] # Undefined THEN found[1] ELSE t.currentPlayer

\* cardName.includes(' and played'), cardName being the text after "drew "
IncludesAndPlayed(line) == line.k \in {"DrewAndPlayed", "DrewPlayedFlipped"}

\* the event-parsing part of the loop body of parseTurns for a line inside a turn:
\* the first matching rule, in the order of the code, makes the event;
\* t: the locals with the rule's other effects applied, ev: <<>> or <<the event>>
ParseEvent(t, line, id, ls) ==
  LET turn == t.turnNumber
      ts == t.timestamp
  IN
  IF matchLine(line, "deckOut") THEN
    [t |-> [t EXCEPT !.winner = line.p, !.winCondition = "deck_out"],
     ev |-> <<WinEvent(id, line.p, "deck_out", turn, ts)>>]
  ELSE IF matchLine(line, "prizeWin") THEN
    [t |-> [t EXCEPT !.winner = line.p, !.winCondition = "prizes"],
     ev |-> <<WinEvent(id, line.p, "prizes", turn, ts)>>]
  ELSE IF matchLine(line, "attack") THEN
    [t |-> [t EXCEPT !.pokemonInMatch = AddIfNew(AddIfNew(@, line.x), line.y),
                     !.lastDamageBreakdown = <<>>],
     ev |-> <<AttackEvent(id, line.p, line.x, line.a, line.y, line.n, t.lastDamageBreakdown, turn, ts)>>]
  ELSE IF matchLine(line, "knockout") THEN
    [t |-> t, ev |-> <<KnockoutEvent(id, CausingPlayer(t, line.p), line.x, turn, ts)>>]
  ELSE IF matchLine(line, "prizeTaken") THEN
    [t |-> t, ev |-> <<PrizeTakenEvent(id, line.p, turn, ts)>>]
  ELSE IF matchLine(line, "switchedIn") THEN
    [t |-> [t EXCEPT !.pokemonInMatch = AddIfNew(@, line.x)],
     ev |-> <<SwitchEvent(id, line.p, line.x, turn, ts)>>]
  ELSE IF matchLine(line, "usedAbility") THEN
    [t |-> [t EXCEPT !.pokemonInMatch = AddIfNew(@, line.x)],
     ev |-> <<AbilityEvent(id, line.p, line.x, line.a, turn, ts)>>]
  ELSE IF matchLine(line, "evolved") THEN
    [t |-> [t EXCEPT !.pokemonInMatch = AddIfNew(AddIfNew(@, line.x), line.y)],
     ev |-> <<EvolveEvent(id, line.p, line.x, line.y, turn, ts)>>]
  ELSE IF matchLine(line, "playedStadium") THEN
    [t |-> t, ev |-> <<TrainerEvent(id, line.p, line.x, "stadium", turn, ts)>>]
  ELSE IF matchLine(line, "playedPokemon") THEN
    [t |-> [t EXCEPT !.pokemonInMatch = AddIfNew(@, line.x)],
     ev |-> <<PlayPokemonEvent(id, line.p, line.x, parseLocation(line.y), turn, ts)>>]
  ELSE IF matchLine(line, "playedTrainer") THEN
    [t |-> t, ev |-> <<TrainerEvent(id, line.p, line.x, getTrainerCategory(line.x), turn, ts)>>]
  ELSE IF matchLine(line, "attachedEnergy") THEN
    IF getTrainerCategory(line.x) = "tool" THEN
      [t |-> t, ev |-> <<TrainerEvent(id, line.p, line.x, "tool", turn, ts)>>]
    ELSE
      [t |-> [t EXCEPT !.pokemonInMatch = AddIfNew(@, line.y)],
       ev |-> <<EnergyEvent(id, line.p, line.x, line.y, turn, ts)>>]
  ELSE IF matchLine(line, "drewCard") /\ ~IncludesAndPlayed(line) THEN
    [t |-> t, ev |-> <<DrawEvent(id, line.p, 1, <<line.x>>, turn, ts)>>]
  ELSE IF matchLine(line, "drewCards") THEN
    [t |-> t, ev |-> <<DrawEvent(id, line.p, line.n, lookAheadForCardNames(ls, t.i), turn, ts)>>]
  ELSE IF matchLine(line, "coinFlip") THEN
    [t |-> t, ev |-> <<CoinFlipEvent(id, t.currentPlayer, line.m, line.n - line.m, turn, ts)>>]
  ELSE [t |-> t, ev |-> <<>>]

\* if (event) { currentTurn.events.push(event); allEvents.push(event) }, with timestamp++
\* a push that leaves the timestamp where it was
PushEvent_SameTimestamp(t, ev) ==
  IF ev = <<>> THEN t
  ELSE [t EXCEPT !.currentTurn[1].events = Append(@, ev[1]),
                 !.allEvents = Append(@, ev[1])]

\* the push of an event that leaves the flat list of all events alone
PushEvent_TurnOnly(t, ev) ==
  IF ev = <<>> THEN t
  ELSE [t EXCEPT !.currentTurn[1].events = Append(@, ev[1]),
                 !.timestamp = @ + 1]

PushEvent(t, ev) ==
  IF ev = <<>> THEN t
  ELSE [t EXCEPT !.currentTurn[1].events = Append(@, ev[1]),
                 !.allEvents = Append(@, ev[1]),
                 !.timestamp = @ + 1]

\* an iteration that advances the timestamp on every line that is read inside a turn
TurnLine_TimestampPerLine(t, ls, id) ==
  LET line == ls[t.i + 1]
      next == IF isTurnStart(line) THEN TurnStart(t)
              ELSE IF shouldSkipLine(line) THEN SkipLine(t, line)
              ELSE IF t.currentTurn = <<>> THEN t
              ELSE LET r == ParseEvent(t, line, id, ls)
                   IN [PushEvent(r.t, r.ev) EXCEPT !.timestamp = t.timestamp + 1]
  IN [next EXCEPT !.i = @ + 1]

\* one iteration of the loop of parseTurns on line ls[t.i + 1]; id: the next event id
TurnLine(t, ls, id) ==
  LET line == ls[t.i + 1]
      next == IF isTurnStart(line) THEN TurnStart(t)
              ELSE IF shouldSkipLine(line) THEN SkipLine(t, line)
              ELSE IF t.currentTurn = <<>> THEN t
              ELSE LET r == ParseEvent(t, line, id, ls) IN PushEvent(r.t, r.ev)
  IN [next EXCEPT !.i = @ + 1]

\* the value parseTurns returns after its loop
TurnsReturn(t) ==
  [turns |-> SaveTurn(t), events |-> t.allEvents, pokemonInMatch |-> t.pokemonInMatch,
   winner |-> t.winner, winCondition |-> t.winCondition]

(***************************************************************************)
(* statistics/calculator.ts                                                *)
(***************************************************************************)
createEmptyPlayerStats ==
  [totalDamageDealt |-> 0, totalCardsDrawn |-> 0,
   trainersPlayed |-> [supporters |-> <<>>, items |-> <<>>, tools |-> <<>>, stadiums |-> <<>>],
   pokemonKnockedOut |-> 0, prizeCardsTaken |-> 0,
   coinFlips |-> [heads |-> 0, tails |-> 0], turnsPlayed |-> 0]

\* the list with the count of `name` raised, or { name, count: 1 } pushed
CountTrainer(list, name) ==
  IF \E k \in 1..Len(list) : list[k].name = name
  THEN [k \in 1..Len(list) |-> IF list[k].name = name /\ (\A j \in 1..(k - 1) : list[j].name # name)
                               THEN [list[k] EXCEPT !.count = @ + 1] ELSE list[k]]
  ELSE Append(list, [name |-> name, count |-> 1])

categorizeAndCountTrainer(stats, details) ==
  IF "trainerName" \notin DOMAIN details \/ "trainerCategory" \notin DOMAIN details THEN stats
  ELSE LET c == details.trainerCategory
           n == details.trainerName
       IN CASE c = "supporter" -> [stats EXCEPT !.trainersPlayed.supporters = CountTrainer(@, n)]
            [] c = "item" -> [stats EXCEPT !.trainersPlayed.items = CountTrainer(@, n)]
            [] c = "tool" -> [stats EXCEPT !.trainersPlayed.tools = CountTrainer(@, n)]
            [] c = "stadium" -> [stats EXCEPT !.trainersPlayed.stadiums = CountTrainer(@, n)]

\* the body of the switch of calculateStatistics, on the statistics of the event's player
\* a fold that keeps the damage of the last attack only
FoldEvent_LastAttackOnly(playerStats, event) ==
  IF event.type = "attack"
  THEN [playerStats EXCEPT !.totalDamageDealt = OrElse(event.details, "damage", 0)]
  ELSE playerStats

\* a fold that counts a drawn card for an event of any type
FoldEvent_EveryTypeDraws(playerStats, event) ==
  [playerStats EXCEPT !.totalCardsDrawn = @ + 1]

FoldEvent(playerStats, event) ==
  CASE event.type = "draw" ->
         [playerStats EXCEPT !.totalCardsDrawn = @ + OrElse(event.details, "cardCount", 1)]
    [] event.type = "attack" ->
         [playerStats EXCEPT !.totalDamageDealt = @ + OrElse(event.details, "damage", 0)]
    [] event.type = "knockout" ->
         [playerStats EXCEPT !.pokemonKnockedOut = @ + 1]
    [] event.type = "prize_taken" ->
         [playerStats EXCEPT !.prizeCardsTaken = @ + OrElse(event.details, "prizesTaken", 1)]
    [] event.type = "play_trainer" ->
         categorizeAndCountTrainer(playerStats, event.details)
    [] event.type = "coin_flip" ->
         [playerStats EXCEPT !.coinFlips.heads = @ + OrElse(event.details, "headsCount", 0),
                             !.coinFlips.tails = @ + OrElse(event.details, "tailsCount", 0)]
    [] OTHER -> playerStats

\* the loop of calculateStatistics over events[k..]
RECURSIVE StatsFrom(_, _, _)
StatsFrom(stats, events, k) ==
  IF k > Len(events) THEN stats
  ELSE LET event == events[k]
       IN StatsFrom(IF event.player \in DOMAIN stats
                    THEN [stats EXCEPT ![event.player] = FoldEvent(@, event)]
                    ELSE stats,
                    events, k + 1)

calculateStatistics(events, playerNames) ==
  StatsFrom([p \in {playerNames[1], playerNames[2]} |-> createEmptyPlayerStats], events, 1)

(***************************************************************************)
(* parser/index.ts                                                         *)
(***************************************************************************)
\* the list as it is, its repetitions kept
Dedupe_Kept(list) == list

\* [...new Set(list)]: the first occurrences, in order
RECURSIVE Dedupe(_)
Dedupe(list) ==
  IF list = <<>> THEN <<>>
  ELSE LET front == Dedupe(SubSeq(list, 1, Len(list) - 1))
       IN AddIfNew(front, Last(list))

\* for (const turn of turns) if (statistics[turn.player]) statistics[turn.player].turnsPlayed++
RECURSIVE CountTurns(_, _, _)
CountTurns(stats, turns, k) ==
  IF k > Len(turns) THEN stats
  ELSE CountTurns(IF turns[k].player \in DOMAIN stats
                  THEN [stats EXCEPT ![turns[k].player].turnsPlayed = @ + 1]
                  ELSE stats,
                  turns, k + 1)

\* the prize-card number at which parseLog infers the winner
PrizesToWin == 6

\* parseLog with the inference asking the second-listed player first
MatchDataOf_SecondListedFirst(setup, turnResult) ==
  LET playerNames == <<setup.players[1].username, setup.players[2].username>>
      allPokemon == Dedupe(setup.pokemonInMatch \o turnResult.pokemonInMatch)
      allEvents == setup.events \o turnResult.events
      statistics == calculateStatistics(allEvents, playerNames)
      winner0 == IF turnResult.winner # Null THEN turnResult.winner ELSE "Unknown"
      winCondition0 == IF turnResult.winCondition # Null THEN turnResult.winCondition ELSE "prizes"
      p1Prizes == statistics[playerNames[1]].prizeCardsTaken
      p2Prizes == statistics[playerNames[2]].prizeCardsTaken
      inferred == winner0 = "Unknown" /\ (p1Prizes >= PrizesToWin \/ p2Prizes >= PrizesToWin)
      winner == IF ~inferred THEN winner0
                ELSE IF p2Prizes >= PrizesToWin THEN playerNames[2] ELSE playerNames[1]
      winCondition == IF inferred THEN "prizes" ELSE winCondition0
  IN [players |-> setup.players,
      coinFlipWinner |-> setup.coinFlipWinner,
      coinFlipChoice |-> setup.coinFlipChoice,
      turns |-> turnResult.turns,
      events |-> allEvents,
      winner |-> winner,
      winCondition |-> winCondition,
      statistics |-> CountTurns(statistics, turnResult.turns, 1),
      pokemonInMatch |-> allPokemon]

\* the MatchData parseLog builds from the two parsers' results
MatchDataOf(setup, turnResult) ==
  LET playerNames == <<setup.players[1].username, setup.players[2].username>>
      allPokemon == Dedupe(setup.pokemonInMatch \o turnResult.pokemonInMatch)
      allEvents == setup.events \o turnResult.events
      statistics == calculateStatistics(allEvents, playerNames)
      winner0 == IF turnResult.winner # Null THEN turnResult.winner ELSE "Unknown"
      winCondition0 == IF turnResult.winCondition # Null THEN turnResult.winCondition ELSE "prizes"
      p1Prizes == statistics[playerNames[1]].prizeCardsTaken
      p2Prizes == statistics[playerNames[2]].prizeCardsTaken
      inferred == winner0 = "Unknown" /\ (p1Prizes >= PrizesToWin \/ p2Prizes >= PrizesToWin)
      winner == IF ~inferred THEN winner0
                ELSE IF p1Prizes >= PrizesToWin THEN playerNames[1] ELSE playerNames[2]
      winCondition == IF inferred THEN "prizes" ELSE winCondition0
  IN [players |-> setup.players,
      coinFlipWinner |-> setup.coinFlipWinner,
      coinFlipChoice |-> setup.coinFlipChoice,
      turns |-> turnResult.turns,
      events |-> allEvents,
      winner |-> winner,
      winCondition |-> winCondition,
      statistics |-> CountTurns(statistics, turnResult.turns, 1),
      pokemonInMatch |-> allPokemon]

\* a parseLog without the check of the turns
ParseLogResult_NoTurnCheck(setup, turnResult) ==
  [success |-> TRUE, data |-> MatchDataOf(setup, turnResult)]

\* parseLog from the check of the turns on: the ParseResult
ParseLogResult(setup, turnResult) ==
  IF Len(turnResult.turns) = 0
  THEN [success |-> FALSE, error |-> "Invalid log format: no game turns found"]
  ELSE [success |-> TRUE, data |-> MatchDataOf(setup, turnResult)]

(***************************************************************************)
(* Deck reconstruction.  A JavaScript Map, and an object used as one, is the *)
(* sequence of its entries in insertion order.                              *)
(***************************************************************************)
\* F applied to the value of v: the argument of a call is evaluated once
Call(F(_), v) == CHOOSE r \in { F(x) : x \in {v} } : TRUE

MapIndex(m, key) ==
  IF \E i \in 1..Len(m) : m[i].key = key
  THEN CHOOSE i \in 1..Len(m) : m[i].key = key
  ELSE 0

MapHas(m, key) == MapIndex(m, key) # 0

MapGet(m, key) == IF MapHas(m, key) THEN m[MapIndex(m, key)].value ELSE Undefined

MapSet(m, key, value) ==
  IF MapHas(m, key)
  THEN [m EXCEPT ![MapIndex(m, key)].value = value]
  ELSE Append(m, [key |-> key, value |-> value])

MapValues(m) == [i \in 1..Len(m) |-> m[i].value]

\* BASIC_ENERGY_PATTERN, /^Basic \w+ Energy$/, over the card names of the model
isBasicEnergy(energyName) == energyName = "Basic Fire Energy"

\* /Energy$/i over the card names of the model
EndsWithEnergy(cardName) == cardName \in EnergyNames

categorizeCard(cardName, eventType, trainerCategory) ==
  CASE eventType \in {"play_pokemon", "evolve"} ->
         [category |-> "pokemon", subcategory |-> Undefined]
    [] eventType = "play_trainer" ->
         [category |-> "trainer",
          subcategory |-> IF trainerCategory # Undefined THEN trainerCategory
                          ELSE getTrainerCategory(cardName)]
    [] eventType = "attach_energy" ->
         [category |-> "energy",
          subcategory |-> IF isBasicEnergy(cardName) THEN "basic" ELSE "special"]
    [] OTHER ->
         IF isBasicEnergy(cardName) THEN [category |-> "energy", subcategory |-> "basic"]
         ELSE IF EndsWithEnergy(cardName) THEN [category |-> "energy", subcategory |-> "special"]
         ELSE IF isKnownTrainer(cardName)
         THEN [category |-> "trainer", subcategory |-> getTrainerCategory(cardName)]
         ELSE [category |-> "pokemon", subcategory |-> Undefined]

\* the copies of a card a deck may hold, basic energy apart
MaxCopies == 4

\* evolvesFrom is evolutionInfo?.evolvesFrom, Undefined without evolutionInfo;
\* the optional number evolutionStage is <<>> or <<stage>>
addOrUpdateCard(cardMap, name, category, subcategory, confidence, evolvesFrom) ==
  IF MapHas(cardMap, name) THEN
    LET existing == MapGet(cardMap, name)
        isBasicEnergyCard == category = "energy" /\ subcategory = "basic"
        counted == IF isBasicEnergyCard \/ existing.count < MaxCopies
                   THEN [existing EXCEPT !.count = @ + 1] ELSE existing
        withSub == IF subcategory # Undefined /\ counted.subcategory = Undefined
                   THEN [counted EXCEPT !.subcategory = subcategory] ELSE counted
        withEvo == IF evolvesFrom # Undefined /\ withSub.evolvesFrom = Undefined
                   THEN [withSub EXCEPT !.evolvesFrom = evolvesFrom] ELSE withSub
    IN MapSet(cardMap, name, withEvo)
  ELSE
    MapSet(cardMap, name,
           [name |-> name, category |-> category, subcategory |-> subcategory, count |-> 1,
            confidence |-> confidence, evolutionStage |-> <<>>, evolvesFrom |-> evolvesFrom])

\* a match of the description that never succeeds
AttachedMatch_None(description) == <<>>

\* event.description.match(/attached (.+?) to/): <<>> or the energy name
AttachedMatch(description) ==
  IF Len(description) >= 4 /\ description[2] = "attached" /\ description[4] = "to"
  THEN <<description[3]>> ELSE <<>>

\* the draw case of extractCardsFromEvents on the first k revealed card names
RECURSIVE ExtractDrawn(_, _, _)
ExtractDrawn(cardMap, cardNames, k) ==
  IF k = 0 THEN cardMap
  ELSE LET c == categorizeCard(cardNames[k], "draw", Undefined)
       IN Call(LAMBDA m : addOrUpdateCard(m, cardNames[k], c.category, c.subcategory,
                                          "confirmed", Undefined),
               ExtractDrawn(cardMap, cardNames, k - 1))

\* the switch of extractCardsFromEvents on one event of the player
ExtractEvent(cardMap, event) ==
  CASE event.type = "play_pokemon" ->
         LET pokemonName == OrElse(event.details, "pokemonName", Undefined)
         IN IF pokemonName # Undefined
            THEN addOrUpdateCard(cardMap, pokemonName, "pokemon", Undefined, "confirmed", Undefined)
            ELSE cardMap
    [] event.type = "evolve" ->
         LET evolvedPokemon == OrElse(event.details, "pokemonName", Undefined)
             basePokemon == OrElse(event.details, "evolvedFrom", Undefined)
             withEvolved == IF evolvedPokemon # Undefined
                            THEN addOrUpdateCard(cardMap, evolvedPokemon, "pokemon", Undefined,
                                                 "confirmed", basePokemon)
                            ELSE cardMap
         IN IF basePokemon # Undefined
            THEN addOrUpdateCard(withEvolved, basePokemon, "pokemon", Undefined, "confirmed", Undefined)
            ELSE withEvolved
    [] event.type = "play_trainer" ->
         LET trainerName == OrElse(event.details, "trainerName", Undefined)
             trainerCategory == OrElse(event.details, "trainerCategory", Undefined)
         IN IF trainerName # Undefined
            THEN addOrUpdateCard(cardMap, trainerName, "trainer", trainerCategory, "confirmed", Undefined)
            ELSE cardMap
    [] event.type = "attach_energy" ->
         LET energyMatch == AttachedMatch(event.description)
         IN IF energyMatch # <<>>
            THEN addOrUpdateCard(cardMap, energyMatch[1], "energy",
                                 IF isBasicEnergy(energyMatch[1]) THEN "basic" ELSE "special",
                                 "confirmed", Undefined)
            ELSE cardMap
    [] event.type = "draw" ->
         LET cardNames == OrElse(event.details, "cardNames", <<>>)
         IN ExtractDrawn(cardMap, cardNames, Len(cardNames))
    [] OTHER -> cardMap

\* extractCardsFromEvents over the first k events
RECURSIVE ExtractFrom(_, _, _)
ExtractFrom(events, playerName, k) ==
  IF k = 0 THEN <<>>
  ELSE IF events[k].player # playerName THEN ExtractFrom(events, playerName, k - 1)
  ELSE Call(LAMBDA cardMap : ExtractEvent(cardMap, events[k]),
            ExtractFrom(events, playerName, k - 1))

extractCardsFromEvents(events, playerName) == ExtractFrom(events, playerName, Len(events))

\* the Map evolutionChains of buildEvolutionRelationships, evolved -> base,
\* after the first k events, of any player
RECURSIVE ChainsFrom(_, _)
ChainsFrom(events, k) ==
  IF k = 0 THEN <<>>
  ELSE LET evolved == OrElse(events[k].details, "pokemonName", Undefined)
           base == OrElse(events[k].details, "evolvedFrom", Undefined)
       IN IF events[k].type = "evolve" /\ evolved # Undefined /\ base # Undefined
          THEN Call(LAMBDA chains : MapSet(chains, evolved, base), ChainsFrom(events, k - 1))
          ELSE ChainsFrom(events, k - 1)

\* card.evolutionStage ?? 0
StageOf(card) == IF card.evolutionStage = <<>> THEN 0 ELSE card.evolutionStage[1]

\* the first pass of sortByEvolutionLine over the first k cards: the groups
RECURSIVE FirstPass(_, _)
FirstPass(pokemonCards, k) ==
  IF k = 0 THEN <<>>
  ELSE LET card == pokemonCards[k]
       IN IF card.evolutionStage = <<0>> \/ card.evolvesFrom = Undefined
          THEN Call(LAMBDA groups : MapSet(groups, card.name, <<card>>),
                    FirstPass(pokemonCards, k - 1))
          ELSE FirstPass(pokemonCards, k - 1)

\* the key of the group a card evolving from root joins: the group of that
\* name, or the first group holding a card of that name; Undefined if none
FoundGroup(groups, root) ==
  IF MapHas(groups, root) THEN root
  ELSE IF \E i \in 1..Len(groups) : \E j \in 1..Len(groups[i].value) : groups[i].value[j].name = root
  THEN LET i == CHOOSE i \in 1..Len(groups) :
                  /\ \E j \in 1..Len(groups[i].value) : groups[i].value[j].name = root
                  /\ \A h \in 1..(i - 1) : \A j \in 1..Len(groups[h].value) : groups[h].value[j].name # root
       IN groups[i].key
  ELSE Undefined

\* findIndex of the first card of a later stage, then splice, or push
InsertByStage(group, card) ==
  LET later == { i \in 1..Len(group) : StageOf(group[i]) > StageOf(card) }
  IN IF later = {} THEN Append(group, card)
     ELSE LET insertIndex == CHOOSE i \in later : \A j \in later : i <= j
          IN SubSeq(group, 1, insertIndex - 1) \o <<card>> \o SubSeq(group, insertIndex, Len(group))

\* the body of the second pass of sortByEvolutionLine on one card
AddToGroup(groups, card) ==
  IF card.evolvesFrom = Undefined THEN groups
  ELSE LET root == FoundGroup(groups, card.evolvesFrom)
       IN IF root # Undefined
          THEN MapSet(groups, root, InsertByStage(MapGet(groups, root), card))
          ELSE MapSet(groups, card.name, <<card>>)

\* the second pass of sortByEvolutionLine over the first k cards
RECURSIVE SecondPass(_, _)
SecondPass(pokemonCards, k) ==
  IF k = 0 THEN FirstPass(pokemonCards, Len(pokemonCards))
  ELSE Call(LAMBDA groups : AddToGroup(groups, pokemonCards[k]), SecondPass(pokemonCards, k - 1))

\* group.sort by evolution stage, a stable sort, of the first k cards of a group
RECURSIVE SortGroup(_, _)
SortGroup(group, k) ==
  IF k = 0 THEN <<>>
  ELSE Call(LAMBDA sorted : InsertByStage(sorted, group[k]), SortGroup(group, k - 1))

\* the groups, each sorted, one after the other
RECURSIVE Flatten(_, _)
Flatten(groups, k) ==
  IF k = 0 THEN <<>>
  ELSE Flatten(groups, k - 1) \o SortGroup(groups[k].value, Len(groups[k].value))

sortByEvolutionLine(pokemonCards) ==
  Call(LAMBDA groups : Flatten(groups, Len(groups)), SecondPass(pokemonCards, Len(pokemonCards)))

toDeckCards(cardMap) ==
  LET cards == MapValues(cardMap)
  IN [i \in 1..Len(cards) |->
        [name |-> cards[i].name, category |-> cards[i].category,
         subcategory |-> cards[i].subcategory, count |-> cards[i].count,
         minCount |-> cards[i].count, confidence |-> cards[i].confidence,
         evolutionStage |-> cards[i].evolutionStage, evolvesFrom |-> cards[i].evolvesFrom]]

RECURSIVE CountSum(_, _)
CountSum(cards, k) == IF k = 0 THEN 0 ELSE CountSum(cards, k - 1) + cards[k].count

DeckOf(playerName, allCards) ==
  LET pokemon == SelectSeq(allCards, LAMBDA c : c.category = "pokemon")
      trainers == SelectSeq(allCards, LAMBDA c : c.category = "trainer")
      energy == SelectSeq(allCards, LAMBDA c : c.category = "energy")
  IN [playerName |-> playerName,
      cards |-> allCards,
      totalCardsObserved |-> CountSum(allCards, Len(allCards)),
      pokemon |-> sortByEvolutionLine(pokemon),
      trainers |-> [supporters |-> SelectSeq(trainers, LAMBDA c : c.subcategory = "supporter"),
                    items |-> SelectSeq(trainers, LAMBDA c : c.subcategory = "item"),
                    tools |-> SelectSeq(trainers, LAMBDA c : c.subcategory = "tool"),
                    stadiums |-> SelectSeq(trainers, LAMBDA c : c.subcategory = "stadium")],
      energy |-> [basic |-> SelectSeq(energy, LAMBDA c : c.subcategory = "basic"),
                  special |-> SelectSeq(energy, LAMBDA c : c.subcategory = "special")]]

buildReconstructedDeck(playerName, cardMap) ==
  Call(LAMBDA allCards : DeckOf(playerName, allCards), toDeckCards(cardMap))

(***************************************************************************)
(* The sprite service (api/pokeapi): fetchSprite and fetchSprites.  A call *)
(* runs without interruption up to its first await; the steps after an     *)
(* await are separate actions.                                             *)
(***************************************************************************)
PLACEHOLDER_SPRITE == "/placeholder-pokemon.png"

\* the Pokemon names the callers pass
SpriteNames == {"Pikachu", "Pikachu ex", "Charizard", "???"}

\* normalizePokemonName over SpriteNames: lower case, a trailing " ex" (mega,
\* gx, vstar, vmax, v) removed, then every character outside a-z0-9- removed
normalizePokemonName(name) ==
  CASE name = "Pikachu" -> "pikachu"
    [] name = "Pikachu ex" -> "pikachu"
    [] name = "Charizard" -> "charizard"
    [] OTHER -> ""

PlaceholderResult(name) == [name |-> name, spriteUrl |-> PLACEHOLDER_SPRITE, isPlaceholder |-> TRUE]

\* the module after loading: both maps empty, nothing requested, nobody calling
SpriteServiceLoaded == [spriteCache |-> <<>>, pendingRequests |-> <<>>, promises |-> <<>>, calls |-> <<>>]

\* map.delete(key)
MapDelete(m, key) == SelectSeq(m, LAMBDA e : e.key # key)

\* what has become of the requests for a normalized name when a call arrives
RequestState(sp, normalizedName) ==
  LET mine == { i \in 1..Len(sp.promises) : sp.promises[i].normalizedName = normalizedName }
  IN IF \E i \in mine : sp.promises[i].at # "settled" THEN "pending"
     ELSE IF mine # {} THEN "completed"
     ELSE "none"

\* one call of fetchSprite: how it was served, the promise it awaits, its value
SpriteCall(name, arrival, how, promise, at, value) ==
  [name |-> name, arrival |-> arrival, how |-> how, promise |-> promise, at |-> at, value |-> value]

\* a lookup of the pending request that never finds one
pending_Ignored(sp, normalizedName) == <<>>

\* const pending = pendingRequests.get(normalizedName): <<>> or <<the promise>>
pending(sp, normalizedName) ==
  IF MapHas(sp.pendingRequests, normalizedName)
  THEN <<MapGet(sp.pendingRequests, normalizedName)>>
  ELSE <<>>

\* fetchSprite up to its first await (or its return); fetchFromApi issues
\* its fetch() within the same step
fetchSprite(sp, pokemonName) ==
  LET normalizedName == normalizePokemonName(pokemonName)
      arrival == RequestState(sp, normalizedName)
      awaited == pending(sp, normalizedName)
      fetchPromise == Len(sp.promises) + 1
  IN IF normalizedName = "" THEN
       [sp EXCEPT !.calls = Append(@, SpriteCall(pokemonName, arrival, "placeholder", 0, "returned",
                                                 <<PlaceholderResult(pokemonName)>>))]
     ELSE IF MapHas(sp.spriteCache, normalizedName) THEN
       [sp EXCEPT !.calls = Append(@, SpriteCall(pokemonName, arrival, "cache", 0, "returned",
                      <<[MapGet(sp.spriteCache, normalizedName) EXCEPT !.name = pokemonName]>>))]
     ELSE IF awaited # <<>> THEN
       [sp EXCEPT !.calls = Append(@, SpriteCall(pokemonName, arrival, "pending", awaited[1],
                                                 "awaitPending", <<>>))]
     ELSE
       [sp EXCEPT !.promises = Append(@, [normalizedName |-> normalizedName,
                                          originalName |-> pokemonName,
                                          at |-> "fetch", result |-> <<>>]),
                  !.pendingRequests = MapSet(@, normalizedName, fetchPromise),
                  !.calls = Append(@, SpriteCall(pokemonName, arrival, "request", fetchPromise,
                                                 "awaitFetch", <<>>))]

\* uniqueNames.map(async (name) => fetchSprite(name)), from uniqueNames[k] on
RECURSIVE FetchEach(_, _, _)
FetchEach(sp, uniqueNames, k) ==
  IF k > Len(uniqueNames) THEN sp
  ELSE FetchEach(fetchSprite(sp, uniqueNames[k]), uniqueNames, k + 1)

fetchSprites(sp, pokemonNames) == FetchEach(sp, Dedupe(pokemonNames), 1)

\* fetchFromApi once its promise has a result: the result is cached
Settle(sp, i, spriteResult) ==
  [sp EXCEPT !.promises[i].at = "settled",
             !.promises[i].result = <<spriteResult>>,
             !.spriteCache = MapSet(@, sp.promises[i].normalizedName, spriteResult)]

\* the calls, promises and bodies the model admits
MaxSpriteCalls == 3
SpriteNameLists == UNION { [1..k -> SpriteNames] : k \in 1..2 }
SpriteBodies == [artwork : {Null, "artwork.png"}, front_default : {Null, "front.png"}]

\* a caller calls fetchSprite
FetchSprite ==
  /\ Len(sprites.calls) < MaxSpriteCalls
  /\ \E pokemonName \in SpriteNames : sprites' = fetchSprite(sprites, pokemonName)
  /\ UNCHANGED <<parserVars, pc, deckVars, cardFetcher, app>>

\* a caller calls fetchSprites
FetchSprites ==
  /\ \E pokemonNames \in SpriteNameLists :
       /\ Len(sprites.calls) + Len(Dedupe(pokemonNames)) <= MaxSpriteCalls
       /\ sprites' = fetchSprites(sprites, pokemonNames)
  /\ UNCHANGED <<parserVars, pc, deckVars, cardFetcher, app>>

\* fetchFromApi after await fetch(): !response.ok or a thrown error caches
\* the placeholder, an ok response goes on to response.json()
FetchResponds ==
  /\ \E i \in 1..Len(sprites.promises) : \E outcome \in {"ok", "notOk", "rejected"} :
       /\ sprites.promises[i].at = "fetch"
       /\ sprites' = IF outcome = "ok"
                     THEN [sprites EXCEPT !.promises[i].at = "json"]
                     ELSE Settle(sprites, i, PlaceholderResult(sprites.promises[i].originalName))
  /\ UNCHANGED <<parserVars, pc, deckVars, cardFetcher, app>>

\* fetchFromApi after await response.json(): the sprite url is chosen and cached
JsonResponds ==
  /\ \E i \in 1..Len(sprites.promises) :
       /\ sprites.promises[i].at = "json"
       /\ \/ \E data \in SpriteBodies :
               LET spriteUrl == IF data.artwork # Null THEN data.artwork
                                ELSE IF data.front_default # Null THEN data.front_default
                                ELSE PLACEHOLDER_SPRITE
               IN sprites' = Settle(sprites, i, [name |-> sprites.promises[i].originalName,
                                                 spriteUrl |-> spriteUrl,
                                                 isPlaceholder |-> spriteUrl = PLACEHOLDER_SPRITE])
          \/ sprites' = Settle(sprites, i, PlaceholderResult(sprites.promises[i].originalName))
  /\ UNCHANGED <<parserVars, pc, deckVars, cardFetcher, app>>

\* fetchSprite after its await: the caller that made the request returns the
\* result and deletes the pending entry (finally); a caller that awaited the
\* pending promise returns the result under its own name
FetchSpriteResumes ==
  /\ \E c \in 1..Len(sprites.calls) :
       LET call == sprites.calls[c]
       IN /\ call.at \in {"awaitFetch", "awaitPending"}
          /\ sprites.promises[call.promise].at = "settled"
          /\ LET settled == sprites.promises[call.promise].result[1]
             IN sprites' =
                  IF call.at = "awaitFetch"
                  THEN [sprites EXCEPT !.calls[c].at = "returned",
                                       !.calls[c].value = <<settled>>,
                                       !.pendingRequests =
                                          MapDelete(@, normalizePokemonName(call.name))]
                  ELSE [sprites EXCEPT !.calls[c].at = "returned",
                                       !.calls[c].value = <<[settled EXCEPT !.name = call.name]>>]
  /\ UNCHANGED <<parserVars, pc, deckVars, cardFetcher, app>>

NextSprites == FetchSprite \/ FetchSprites \/ FetchResponds \/ JsonResponds \/ FetchSpriteResumes

(***************************************************************************)
(* cardFetcher.ts                                                          *)
(***************************************************************************)
\* the module after loading, with nothing in localStorage
CardFetcherLoaded ==
  [cardCache |-> <<>>, requestQueue |-> <<>>, isProcessingQueue |-> FALSE,
   batches |-> <<>>, calls |-> <<>>]

BATCH_SIZE == 10

\* the card names the callers pass
CardNames == {"Pikachu", "Charizard"}

createPlaceholder(cardName) == [name |-> cardName, isPlaceholder |-> TRUE, setName |-> "Unknown"]

\* convertToCardData(selectMostRecentCard(matchingCards)), the chosen card
\* being of the set setName
convertToCardData(cardName, setName) == [name |-> cardName, isPlaceholder |-> FALSE, setName |-> setName]

\* one call of fetchCard, or one name of a call of fetchCards
CardCall(cardName, via, at, value) == [name |-> cardName, via |-> via, at |-> at, value |-> value]

\* fetchCardBatch up to await waitForRateLimit(): no request is sent yet.
\* owner is the call of fetchCard, or 0 for processQueue, whose batch of
\* queued requests is `requests`
fetchCardBatch(cf, cardNames, owner, requests) ==
  [cf EXCEPT !.batches = Append(@, [cardNames |-> cardNames, at |-> "rateLimit", owner |-> owner,
                                    requests |-> requests, results |-> <<>>])]

\* fetchCard up to its first await
fetchCard(cf, cardName) ==
  IF MapHas(cf.cardCache, cardName)
  THEN [cf EXCEPT !.calls = Append(@, CardCall(cardName, "fetchCard", "returned",
                                               <<MapGet(cf.cardCache, cardName)>>))]
  ELSE fetchCardBatch([cf EXCEPT !.calls = Append(@, CardCall(cardName, "fetchCard", "awaitBatch", <<>>))],
                      <<cardName>>, Len(cf.calls) + 1, <<>>)

\* one round of the while loop of processQueue, up to the await of
\* fetchCardBatch: requestQueue.splice(0, BATCH_SIZE)
TakeBatch(cf) ==
  LET n == IF Len(cf.requestQueue) < BATCH_SIZE THEN Len(cf.requestQueue) ELSE BATCH_SIZE
      batch == SubSeq(cf.requestQueue, 1, n)
      rest == SubSeq(cf.requestQueue, n + 1, Len(cf.requestQueue))
  IN fetchCardBatch([cf EXCEPT !.requestQueue = rest],
                    [k \in 1..n |-> batch[k].cardName], 0, batch)

\* processQueue without the test of isProcessingQueue
processQueue_Reentered(cf) ==
  IF Len(cf.requestQueue) = 0 THEN cf
  ELSE TakeBatch([cf EXCEPT !.isProcessingQueue = TRUE])

\* processQueue from its entry up to its first await
processQueue(cf) ==
  IF cf.isProcessingQueue \/ Len(cf.requestQueue) = 0 THEN cf
  ELSE TakeBatch([cf EXCEPT !.isProcessingQueue = TRUE])

\* queueFetch, the caller being a callback of fetchCards
queueFetch(cf, cardName) ==
  IF MapHas(cf.cardCache, cardName)
  THEN [cf EXCEPT !.calls = Append(@, CardCall(cardName, "fetchCards", "returned",
                                               <<MapGet(cf.cardCache, cardName)>>))]
  ELSE processQueue([cf EXCEPT !.calls = Append(@, CardCall(cardName, "fetchCards", "awaitQueue", <<>>)),
                               !.requestQueue = Append(@, [cardName |-> cardName,
                                                           call |-> Len(cf.calls) + 1])])

\* uniqueNames.map(async (name) => queueFetch(name)), from uniqueNames[k] on
RECURSIVE QueueEach(_, _, _)
QueueEach(cf, uniqueNames, k) ==
  IF k > Len(uniqueNames) THEN cf
  ELSE QueueEach(queueFetch(cf, uniqueNames[k]), uniqueNames, k + 1)

fetchCards(cf, cardNames) == QueueEach(cf, Dedupe(cardNames), 1)

\* cardNames.forEach of fetchCardBatch, from cardNames[k] on: a name the API
\* returned cards for is cached with the data of the chosen card, any other
\* name with a placeholder
RECURSIVE ProcessEach(_, _, _, _, _)
ProcessEach(cf, b, found, setName, k) ==
  LET cardNames == cf.batches[b].cardNames
  IN IF k > Len(cardNames) THEN cf
     ELSE LET cardName == cardNames[k]
              cardData == IF cardName \in found THEN convertToCardData(cardName, setName)
                          ELSE createPlaceholder(cardName)
          IN ProcessEach([cf EXCEPT !.cardCache = MapSet(@, cardName, cardData),
                                    !.batches[b].results = MapSet(@, cardName, cardData)],
                         b, found, setName, k + 1)

\* the calls and API answers the model admits
MaxCardCalls == 3
CardNameLists == UNION { [1..k -> CardNames] : k \in 1..2 }
SetNames == {"Base Set", "Scarlet & Violet"}

\* a caller calls fetchCard
FetchCard ==
  /\ Len(cardFetcher.calls) < MaxCardCalls
  /\ \E cardName \in CardNames : cardFetcher' = fetchCard(cardFetcher, cardName)
  /\ UNCHANGED <<parserVars, pc, deckVars, sprites, app>>

\* a caller calls fetchCards
FetchCards ==
  /\ \E cardNames \in CardNameLists :
       /\ Len(cardFetcher.calls) + Len(Dedupe(cardNames)) <= MaxCardCalls
       /\ cardFetcher' = fetchCards(cardFetcher, cardNames)
  /\ UNCHANGED <<parserVars, pc, deckVars, sprites, app>>

\* fetchCardBatch after await waitForRateLimit(): the query naming every card
\* of the batch is sent to the API
SendQuery ==
  /\ \E b \in 1..Len(cardFetcher.batches) :
       /\ cardFetcher.batches[b].at = "rateLimit"
       /\ cardFetcher' = [cardFetcher EXCEPT !.batches[b].at = "api"]
  /\ UNCHANGED <<parserVars, pc, deckVars, sprites, app>>

\* fetchCardBatch after await findCardsByQueries: the API answers with cards
\* for some of the names, or the call throws and every name gets a placeholder
ApiResponds ==
  /\ \E b \in 1..Len(cardFetcher.batches) :
       /\ cardFetcher.batches[b].at = "api"
       /\ \E found \in SUBSET CardNames : \E setName \in SetNames :
            cardFetcher' = ProcessEach([cardFetcher EXCEPT !.batches[b].at = "done"],
                                       b, found, setName, 1)
  /\ UNCHANGED <<parserVars, pc, deckVars, sprites, app>>

\* request.resolve of processQueue for batch[k..]
RECURSIVE ResolveEach(_, _, _)
ResolveEach(cf, b, k) ==
  LET batch == cf.batches[b]
  IN IF k > Len(batch.requests) THEN cf
     ELSE ResolveEach([cf EXCEPT !.calls[batch.requests[k].call].at = "returned",
                                 !.calls[batch.requests[k].call].value =
                                    <<MapGet(batch.results, batch.requests[k].cardName)>>],
                      b, k + 1)

\* the caller of fetchCardBatch after its await: fetchCard returns
\* results.get(cardName); processQueue resolves the requests of the batch and
\* goes round its loop, or leaves it
BatchReturns ==
  /\ \E b \in 1..Len(cardFetcher.batches) :
       LET batch == cardFetcher.batches[b]
           returned == [cardFetcher EXCEPT !.batches[b].at = "returned"]
       IN /\ batch.at = "done"
          /\ cardFetcher' =
               IF batch.owner # 0
               THEN [returned EXCEPT !.calls[batch.owner].at = "returned",
                                     !.calls[batch.owner].value =
                                        <<MapGet(batch.results, batch.cardNames[1])>>]
               ELSE LET resolved == ResolveEach(returned, b, 1)
                    IN IF Len(resolved.requestQueue) > 0 THEN TakeBatch(resolved)
                       ELSE [resolved EXCEPT !.isProcessingQueue = FALSE]
  /\ UNCHANGED <<parserVars, pc, deckVars, sprites, app>>

NextCards == FetchCard \/ FetchCards \/ SendQuery \/ ApiResponds \/ BatchReturns

(***************************************************************************)
(* AppContext.tsx                                                          *)
(***************************************************************************)
\* initialState, with nothing in localStorage; matchData is <<>> for null,
\* or <<the MatchData>>
initialState ==
  [view |-> "input", rawLog |-> "", matchData |-> <<>>, sprites |-> <<>>,
   isLoading |-> FALSE, error |-> Null,
   deckAnalysis |-> [playerDecks |-> Null, cardData |-> <<>>, errors |-> <<>>],
   theme |-> "dark", crtEnabled |-> FALSE]

\* the provider after mounting: useReducer(appReducer, initialState), no
\* fetch awaited, no action called yet. epoch counts the calls of submitLog
\* and clearLog, last names the action called last
AppMounted == [state |-> initialState, fetches |-> <<>>, epoch |-> 0, last |-> "mount"]

\* the cases of appReducer for the actions submitLog, clearLog and
\* fetchSprites dispatch
appReducer(state, action) ==
  CASE action.type = "SET_RAW_LOG" ->
         [state EXCEPT !.rawLog = action.payload, !.error = Null]
    [] action.type = "SUBMIT_LOG_START" ->
         [state EXCEPT !.isLoading = TRUE, !.error = Null]
    [] action.type = "SUBMIT_LOG_SUCCESS" ->
         [state EXCEPT !.isLoading = FALSE, !.matchData = <<action.payload>>,
                       !.view = "results", !.error = Null]
    [] action.type = "SUBMIT_LOG_ERROR" ->
         [state EXCEPT !.isLoading = FALSE, !.error = action.payload, !.matchData = <<>>]
    [] action.type = "CLEAR_LOG" -> initialState
    [] action.type = "FETCH_SPRITES_START" -> [state EXCEPT !.isLoading = TRUE]
    [] action.type = "FETCH_SPRITES_SUCCESS" ->
         [state EXCEPT !.isLoading = FALSE, !.sprites = action.payload]
    [] action.type = "FETCH_SPRITES_ERROR" -> [state EXCEPT !.isLoading = FALSE]
    [] OTHER -> state

\* dispatch of the actions in order
RECURSIVE Dispatch(_, _, _)
Dispatch(state, actions, k) ==
  IF k > Len(actions) THEN state
  ELSE Dispatch(appReducer(state, actions[k]), actions, k + 1)

convertToPokemonSprite(spriteResult) ==
  [name |-> spriteResult.name,
   spriteUrl |-> IF spriteResult.isPlaceholder THEN Null ELSE spriteResult.spriteUrl,
   isLoading |-> FALSE,
   error |-> IF spriteResult.isPlaceholder THEN "Sprite not found" ELSE Null]

\* the SpriteResult of a name: a sprite found, or the placeholder
SpriteResultOf(name, isPlaceholder) ==
  [name |-> name, spriteUrl |-> IF isPlaceholder THEN "" ELSE "artwork.png",
   isPlaceholder |-> isPlaceholder]

\* spriteResults.forEach((result, name) => sprites.set(name, ...)) over the
\* Map fetchSprites returns, which has an entry for every unique name
RECURSIVE ConvertEach(_, _, _)
ConvertEach(uniqueNames, placeholders, k) ==
  IF k > Len(uniqueNames) THEN <<>>
  ELSE <<[key |-> uniqueNames[k],
          value |-> convertToPokemonSprite(SpriteResultOf(uniqueNames[k],
                                                          uniqueNames[k] \in placeholders))]>>
       \o ConvertEach(uniqueNames, placeholders, k + 1)

\* the texts the user submits, with what parseLog returns on each: a match
\* with Pokemon, a match with other Pokemon, a match with none, a failure
AppLogTexts == {"log of Pikachu", "log of Charizard", "log of no Pokemon", "not a log"}

ParseResultOf(logText) ==
  CASE logText = "log of Pikachu" ->
         [success |-> TRUE, data |-> [log |-> logText, pokemonInMatch |-> <<"Pikachu">>]]
    [] logText = "log of Charizard" ->
         [success |-> TRUE, data |-> [log |-> logText, pokemonInMatch |-> <<"Charizard", "Pikachu">>]]
    [] logText = "log of no Pokemon" ->
         [success |-> TRUE, data |-> [log |-> logText, pokemonInMatch |-> <<>>]]
    [] OTHER -> [success |-> FALSE, error |-> "Invalid log format: missing setup phase"]

\* the calls of the provider's actions the model admits
MaxAppCalls == 3

\* the fetch of sprites an action starts: it awaits fetchSpritesFromApi
SpriteFetch(pokemonNames, by, epoch) ==
  [pokemonNames |-> pokemonNames, by |-> by, epoch |-> epoch, at |-> "awaitSprites"]

\* submitLog up to its await, or to its end when it fetches no sprite
SubmitLog ==
  /\ app.epoch < MaxAppCalls
  /\ \E logText \in AppLogTexts :
       LET parsed == ParseResultOf(logText)
           started == <<[type |-> "SET_RAW_LOG", payload |-> logText],
                        [type |-> "SUBMIT_LOG_START"]>>
           fetching == parsed.success /\ Len(parsed.data.pokemonInMatch) > 0
           actions ==
             IF ~parsed.success
             THEN started \o <<[type |-> "SUBMIT_LOG_ERROR", payload |-> parsed.error]>>
             ELSE started \o <<[type |-> "SUBMIT_LOG_SUCCESS", payload |-> parsed.data]>>
                          \o (IF fetching THEN <<[type |-> "FETCH_SPRITES_START"]>> ELSE <<>>)
       IN app' = [state |-> Dispatch(app.state, actions, 1),
                  fetches |-> IF fetching
                              THEN Append(app.fetches,
                                          SpriteFetch(parsed.data.pokemonInMatch, "submitLog",
                                                      app.epoch + 1))
                              ELSE app.fetches,
                  epoch |-> app.epoch + 1,
                  last |-> "submitLog"]
  /\ UNCHANGED <<parserVars, pc, deckVars, sprites, cardFetcher>>

\* clearLog
ClearLog ==
  /\ app.epoch < MaxAppCalls
  /\ app' = [app EXCEPT !.state = appReducer(@, [type |-> "CLEAR_LOG"]),
                        !.epoch = @ + 1,
                        !.last = "clearLog"]
  /\ UNCHANGED <<parserVars, pc, deckVars, sprites, cardFetcher>>

\* fetchSprites of the context up to its await, called for the Pokemon of
\* the match on display
ContextFetchSprites ==
  /\ Len(app.fetches) < MaxAppCalls
  /\ app.state.matchData # <<>>
  /\ Len(app.state.matchData[1].pokemonInMatch) # 0
  /\ app' = [app EXCEPT !.state = appReducer(@, [type |-> "FETCH_SPRITES_START"]),
                        !.fetches = Append(@, SpriteFetch(app.state.matchData[1].pokemonInMatch,
                                                          "fetchSprites", app.epoch)),
                        !.last = "fetchSprites"]
  /\ UNCHANGED <<parserVars, pc, deckVars, sprites, cardFetcher>>

\* submitLog or fetchSprites after await fetchSpritesFromApi: the service
\* resolves with a sprite or a placeholder for each name, never rejecting
SpritesArrive ==
  /\ \E f \in 1..Len(app.fetches) :
       /\ app.fetches[f].at = "awaitSprites"
       /\ \E placeholders \in SUBSET SpriteNames :
            LET uniqueNames == Dedupe(app.fetches[f].pokemonNames)
                payload == ConvertEach(uniqueNames, placeholders, 1)
            IN app' = [app EXCEPT
                         !.state = appReducer(@, [type |-> "FETCH_SPRITES_SUCCESS",
                                                  payload |-> payload]),
                         !.fetches[f].at = "done"]
  /\ UNCHANGED <<parserVars, pc, deckVars, sprites, cardFetcher>>

NextApp == SubmitLog \/ ClearLog \/ ContextFetchSprites \/ SpritesArrive

(***************************************************************************)
(* parseLog as a state machine: one step per loop iteration                *)
(***************************************************************************)
\* !logText || logText.trim().length === 0, on the lines of the text
IsEmptyText(ls) == \A k \in 1..Len(ls) : ls[k].k = "Blank"

\* lines.some((line) => line === 'Setup')
HasSetupLine(ls) == \E k \in 1..Len(ls) : ls[k].k = "Setup"

NoSetup == [unset |-> TRUE]
NoResult == [pending |-> TRUE]
Failure(msg) == [success |-> FALSE, error |-> msg]

\* a resetEventCounter that leaves the counter as it is
resetEventCounter_Kept == eventCounter

\* the value resetEventCounter gives the counter
resetEventCounter == 0

\* parseLog up to the call of parseSetup
ParseLogStart ==
  /\ pc = "parseLog"
  /\ eventCounter' = resetEventCounter
  /\ IF IsEmptyText(lines) THEN
       /\ result' = Failure("Please paste a game log to analyze")
       /\ pc' = "done"
       /\ su' = su
     ELSE IF ~HasSetupLine(lines) THEN
       /\ result' = Failure("Invalid log format: missing setup phase")
       /\ pc' = "done"
       /\ su' = su
     ELSE
       /\ result' = result
       /\ pc' = "parseSetup"
       /\ su' = SetupLocals
  /\ UNCHANGED <<lines, setupResult, tp, previous, deckVars, apiVars>>

\* one iteration of the loop of parseSetup
ParseSetupStep ==
  /\ pc = "parseSetup"
  /\ su.i < Len(lines)
  /\ LET line == lines[su.i + 1]
         next == IF isSetupHeader(line) THEN [su EXCEPT !.inSetup = TRUE, !.i = @ + 1]
                 ELSE IF isTurnStart(line) THEN [su EXCEPT !.setupEndIndex = su.i]
                 ELSE IF ~su.inSetup THEN [su EXCEPT !.i = @ + 1]
                 ELSE [SetupLine(su, line, eventCounter) EXCEPT !.i = @ + 1]
     IN /\ su' = next
        /\ eventCounter' = eventCounter + (Len(next.events) - Len(su.events))
        /\ pc' = IF (isTurnStart(line) /\ ~isSetupHeader(line)) \/ next.i >= Len(lines)
                 THEN "setupReturn" ELSE "parseSetup"
  /\ UNCHANGED <<lines, setupResult, tp, result, previous, deckVars, apiVars>>

\* the end of parseSetup and parseLog up to the loop of parseTurns
ParseSetupReturn ==
  /\ pc = "setupReturn"
  /\ LET r == SetupReturn(su)
     IN /\ setupResult' = r
        /\ IF isSetupError(r) THEN
             /\ result' = Failure(r.error)
             /\ pc' = "done"
             /\ tp' = tp
           ELSE
             /\ result' = result
             /\ pc' = "parseTurns"
             /\ tp' = TurnLocals(r.setupEndIndex,
                                 <<JsString(r.players[1].username), JsString(r.players[2].username)>>)
  /\ UNCHANGED <<lines, eventCounter, su, previous, deckVars, apiVars>>

\* one iteration of the loop of parseTurns
ParseTurnsStep ==
  /\ pc = "parseTurns"
  /\ tp.i < Len(lines)
  /\ LET next == TurnLine(tp, lines, eventCounter + 1)
     IN /\ tp' = next
        /\ eventCounter' = eventCounter + (Len(next.allEvents) - Len(tp.allEvents))
        /\ pc' = IF next.i >= Len(lines) THEN "turnsReturn" ELSE "parseTurns"
  /\ UNCHANGED <<lines, su, setupResult, result, previous, deckVars, apiVars>>

\* the end of parseTurns and the rest of parseLog
ParseLogFinish ==
  /\ pc = "turnsReturn"
  /\ result' = ParseLogResult(setupResult, TurnsReturn(tp))
  /\ pc' = "done"
  /\ UNCHANGED <<lines, eventCounter, su, setupResult, tp, previous, deckVars, apiVars>>

NextParse ==
  \/ ParseLogStart
  \/ ParseSetupStep
  \/ ParseSetupReturn
  \/ ParseTurnsStep
  \/ ParseLogFinish

(***************************************************************************)
(* reconstructDecks as a state machine: one pass per player, the loops of   *)
(* buildEvolutionRelationships taken an iteration at a time.                *)
(***************************************************************************)
\* the largest stage the model counts to; stage++ saturates there, as it does
\* on a JavaScript number at 2^53
MaxStage == 3

\* one pass of the loop of reconstructDecks up to the loop that assigns the stages
ReconstructPlayer ==
  /\ pc = "reconstructDecks"
  /\ dk.pi <= Len(matchData.players)
  /\ dk' = [pi |-> dk.pi,
            cardMap |-> extractCardsFromEvents(matchData.events,
                                               UsernameOf(matchData.players[dk.pi])),
            evolutionChains |-> ChainsFrom(matchData.events, Len(matchData.events)),
            ci |-> 1, stage |-> 0, current |-> Undefined]
  /\ pc' = "assignStages"
  /\ UNCHANGED <<parserVars, apiVars, matchData, playerDecks>>

\* the loop over the cards on a card that is not a Pokemon
SkipCard ==
  /\ pc = "assignStages"
  /\ dk.ci <= Len(dk.cardMap)
  /\ dk.cardMap[dk.ci].value.category # "pokemon"
  /\ dk' = [dk EXCEPT !.ci = @ + 1]
  /\ UNCHANGED <<parserVars, apiVars, pc, matchData, playerDecks>>

\* the loop over the cards on a Pokemon, up to the while loop
TraceStart ==
  /\ pc = "assignStages"
  /\ dk.ci <= Len(dk.cardMap)
  /\ dk.cardMap[dk.ci].value.category = "pokemon"
  /\ dk' = [dk EXCEPT !.stage = 0, !.current = dk.cardMap[dk.ci].key]
  /\ pc' = "trace"
  /\ UNCHANGED <<parserVars, apiVars, matchData, playerDecks>>

\* an iteration of the while loop that follows the chain without stage++
TraceStep_StageKept ==
  /\ pc = "trace"
  /\ MapHas(dk.evolutionChains, dk.current)
  /\ dk' = [dk EXCEPT !.current = MapGet(dk.evolutionChains, dk.current)]
  /\ UNCHANGED <<parserVars, apiVars, pc, matchData, playerDecks>>

\* one iteration of while (evolutionChains.has(current))
TraceStep ==
  /\ pc = "trace"
  /\ MapHas(dk.evolutionChains, dk.current)
  /\ dk' = [dk EXCEPT !.stage = IF @ < MaxStage THEN @ + 1 ELSE @,
                      !.current = MapGet(dk.evolutionChains, dk.current)]
  /\ UNCHANGED <<parserVars, apiVars, pc, matchData, playerDecks>>

\* the exit of the while loop and the rest of the loop body
TraceDone ==
  /\ pc = "trace"
  /\ ~MapHas(dk.evolutionChains, dk.current)
  /\ LET cardName == dk.cardMap[dk.ci].key
         staged == [dk.cardMap[dk.ci].value EXCEPT !.evolutionStage = <<dk.stage>>]
         card == IF MapHas(dk.evolutionChains, cardName)
                 THEN [staged EXCEPT !.evolvesFrom = MapGet(dk.evolutionChains, cardName)]
                 ELSE staged
     IN dk' = [dk EXCEPT !.cardMap[dk.ci].value = card, !.ci = @ + 1]
  /\ pc' = "assignStages"
  /\ UNCHANGED <<parserVars, apiVars, matchData, playerDecks>>

\* the end of the loop over the cards and the rest of the pass of reconstructDecks
BuildDeck ==
  /\ pc = "assignStages"
  /\ dk.ci > Len(dk.cardMap)
  /\ LET playerName == UsernameOf(matchData.players[dk.pi])
     IN playerDecks' = MapSet(playerDecks, playerName, buildReconstructedDeck(playerName, dk.cardMap))
  /\ dk' = [dk EXCEPT !.pi = @ + 1]
  /\ pc' = "reconstructDecks"
  /\ UNCHANGED <<parserVars, apiVars, matchData>>

\* the return of reconstructDecks
ReconstructReturn ==
  /\ pc = "reconstructDecks"
  /\ dk.pi > Len(matchData.players)
  /\ pc' = "returned"
  /\ UNCHANGED <<parserVars, apiVars, dk, matchData, playerDecks>>

NextDeck ==
  \/ ReconstructPlayer
  \/ SkipCard
  \/ TraceStart
  \/ TraceStep
  \/ TraceDone
  \/ BuildDeck
  \/ ReconstructReturn

(***************************************************************************)
(* The logs parsed                                                         *)
(***************************************************************************)
P1 == "Player1"
P2 == "Player2"

\* the sequences over S of length at most n
SeqsUpTo(S, n) == UNION {[1..k -> S] : k \in 0..n}

\* the most lines after the setup section of a log
MaxTurnLines == 6
\* the most lines of a log drawn line by line from the setup alphabet
MaxSetupLines == 5

\* setup sections: Player1 wins the toss and goes first; Player2, seen second, wins it
SetupSections ==
  { <<SetupHeader, WonToss(P1), DecidedGo(P1, "first"), OpeningHand(P1, 7), OpeningHand(P2, 7)>>,
    <<SetupHeader, OpeningHand(P1, 7), WonToss(P2), PlayedPokemon(P2, "Pikachu ex", "Active Spot")>> }

\* lines of the turns
TurnAlphabet ==
  { TurnMarker,
    Attack(P1, "Charmander", "Ember", P2, "Pikachu ex", 20),
    Attack(P2, "Pikachu ex", "Thunder", P1, "Charmander", 30),
    EndedTurn(P1) }

TurnLogs == { pre \o body : pre \in SetupSections, body \in SeqsUpTo(TurnAlphabet, MaxTurnLines) }

\* the state before a call of parseLog on one of the logs, the counter at one
\* of the values earlier parses may have left
InitParseFrom(Logs, Counters) ==
  /\ lines \in Logs
  /\ pc = "parseLog"
  /\ eventCounter \in Counters
  /\ su = SetupLocals
  /\ setupResult = NoSetup
  /\ tp = TurnLocals(0, <<JsString(P1), JsString(P2)>>)
  /\ result = NoResult
  /\ previous = NoResult
  /\ matchData = [players |-> <<>>, events |-> <<>>]
  /\ dk = [idle |-> TRUE]
  /\ playerDecks = <<>>
  /\ sprites = SpriteServiceLoaded
  /\ cardFetcher = CardFetcherLoaded
  /\ app = AppMounted

\* the first call of parseLog after the module is loaded
InitParse(Logs) == InitParseFrom(Logs, {0})

Init == InitParse(TurnLogs)
Spec == Init /\ [][NextParse]_vars

\* logs drawn line by line, for the checks parseLog and parseSetup make
SetupAlphabet ==
  { SetupHeader, TurnMarker, Blank, WonToss(P1), ChoseCoin(P1), OpeningHand(P2, 7), TookPrize(P1),
    TookMulligan(P2) }

SetupLogs == SeqsUpTo(SetupAlphabet, MaxSetupLines) \ {<<>>}

InitSetupLogs == InitParse(SetupLogs)
SpecSetup == InitSetupLogs /\ [][NextParse]_vars

\* the most lines after the setup section of a log of the endings
MaxEndingLines == 4

\* lines about damage counters, prizes and the ways a match ends
EndingAlphabet ==
  { TurnMarker,
    UsedAbility(P1, "Charmander", "Powerful Hand"),
    PutCounters(P1, 22, P2, "Pikachu ex"),
    PutCountersPlain(P1, 22, P2, "Pikachu ex"),
    KnockedOut(P2, "Pikachu ex"),
    TookPrizes(P1, 2),
    Conceded(P1),
    YouConceded(P2),
    OpponentConceded(P2) }

EndingLogs == { pre \o body : pre \in SetupSections, body \in SeqsUpTo(EndingAlphabet, MaxEndingLines) }

InitEndings == InitParse(EndingLogs)
SpecEndings == InitEndings /\ [][NextParse]_vars

(***************************************************************************)
(* Properties of parseLog                                                  *)
(***************************************************************************)
Returned == pc = "done" /\ "success" \in DOMAIN result
Succeeded == Returned /\ result.success
Failed == Returned /\ ~result.success

\* C1: in the events of a successful parse the turn never decreases along the
\* list, setup events have turn 0 and turn events a turn >= 1, and among the
\* events of one turn the timestamp strictly increases, starting at 0
C1_EventsOrdered ==
  Succeeded =>
    LET ev == result.data.events
        nSetup == Len(setupResult.events)
    IN /\ \A k \in 1..Len(ev) : IF k <= nSetup THEN ev[k].turn = 0 ELSE ev[k].turn >= 1
       /\ \A j, k \in 1..Len(ev) : j < k => ev[j].turn <= ev[k].turn
       /\ \A j, k \in 1..Len(ev) :
            (j < k /\ ev[j].turn = ev[k].turn) => ev[j].timestamp < ev[k].timestamp
       /\ \A k \in 1..Len(ev) :
            (k = 1 \/ ev[k - 1].turn # ev[k].turn) => ev[k].timestamp = 0

\* a successful parse with setup events, two events in one turn and a later turn with an event
C1_Witness ==
  /\ Succeeded
  /\ LET ev == result.data.events
     IN /\ ev[1].turn = 0
        /\ \E j, k \in 1..Len(ev) : j < k /\ ev[j].turn = 1 /\ ev[k].turn = 1
        /\ \E k \in 1..Len(ev) : ev[k].turn = 2 /\ ev[k].timestamp = 0

\* the player marked isFirst, and the other one
FirstMarked(players) == IF players[1].isFirst THEN players[1].username ELSE players[2].username
SecondMarked(players) == IF players[1].isFirst THEN players[2].username ELSE players[1].username

\* the number of turn markers among the first n lines
RECURSIVE MarkersUpTo(_, _)
MarkersUpTo(ls, n) ==
  IF n = 0 THEN 0 ELSE MarkersUpTo(ls, n - 1) + (IF ls[n].k = "TurnStart" THEN 1 ELSE 0)

\* C2: the turn number changes only at turn markers (it is the number of markers
\* read so far), and every turn of a successful parse has as player the one marked
\* isFirst when its number is odd and the other player when it is even
C2_TurnsAlternate ==
  /\ (pc \in {"parseTurns", "turnsReturn"}) => tp.turnNumber = MarkersUpTo(lines, tp.i)
  /\ Succeeded =>
       \A k \in 1..Len(result.data.turns) :
         LET turn == result.data.turns[k]
         IN turn.player = IF turn.number % 2 = 1 THEN FirstMarked(result.data.players)
                          ELSE SecondMarked(result.data.players)

\* the damage of the attack events of player p among events[1..n]
RECURSIVE DamageOf(_, _, _)
DamageOf(events, p, n) ==
  IF n = 0 THEN 0
  ELSE DamageOf(events, p, n - 1)
       + (IF events[n].type = "attack" /\ events[n].player = p /\ "damage" \in DOMAIN events[n].details
          THEN events[n].details.damage ELSE 0)

\* C3: for each of the two players totalDamageDealt is the sum of the damage of
\* the attack events of the match attributed to that player
C3_DamageIsSumOfAttacks ==
  Succeeded =>
    \A k \in 1..2 :
      LET p == result.data.players[k].username
      IN result.data.statistics[p].totalDamageDealt
           = DamageOf(result.data.events, p, Len(result.data.events))

\* a successful parse in which both players attacked, one of them twice
C3_Witness ==
  /\ Succeeded
  /\ LET ev == result.data.events
     IN /\ \E j, k \in 1..Len(ev) :
             j < k /\ ev[j].type = "attack" /\ ev[k].type = "attack"
             /\ ev[j].player = P1 /\ ev[k].player = P1
        /\ \E k \in 1..Len(ev) : ev[k].type = "attack" /\ ev[k].player = P2
  /\ result.data.statistics[P1].totalDamageDealt = 40
  /\ result.data.statistics[P2].totalDamageDealt = 30

\* C7: parseLog returns the first failure of its checks, in this order: an
\* empty or blank text, no line 'Setup', the failure of parseSetup (its message
\* unchanged), no turn with events; otherwise it succeeds with at least one turn
C7_ChecksInOrder ==
  Returned =>
    IF \A k \in 1..Len(lines) : lines[k].k = "Blank"
    THEN result = Failure("Please paste a game log to analyze")
    ELSE IF \A k \in 1..Len(lines) : lines[k].k # "Setup"
    THEN result = Failure("Invalid log format: missing setup phase")
    ELSE IF "error" \in DOMAIN setupResult
    THEN result = Failure(setupResult.error)
    ELSE IF tp.allEvents = <<>>
    THEN result = Failure("Invalid log format: no game turns found")
    ELSE result.success /\ Len(result.data.turns) >= 1

\* a log whose only 'Setup' line comes after the first turn marker: the check
\* for the line passes and the failure returned is that of parseSetup
C7_Witness ==
  /\ Failed
  /\ \E k \in 1..Len(lines) : lines[k].k = "Setup"
  /\ "error" \in DOMAIN setupResult
  /\ result.error = setupResult.error
  /\ \E k \in 1..Len(lines) : lines[k].k = "WonToss"

\* the index of the first turn marker, or one past the last line
FirstMarker(ls) ==
  IF \E k \in 1..Len(ls) : ls[k].k = "TurnStart"
  THEN CHOOSE k \in 1..Len(ls) : ls[k].k = "TurnStart" /\ \A j \in 1..(k - 1) : ls[j].k # "TurnStart"
  ELSE Len(ls) + 1

\* line k lies after a 'Setup' header and before the first turn marker
InSetupSection(ls, k) ==
  /\ k < FirstMarker(ls)
  /\ \E h \in 1..(k - 1) : ls[h].k = "Setup"

\* the usernames of the coin-flip-choice, coin-flip-winner, go-first and
\* opening-hand lines of the setup section
SeenNames(ls) ==
  { ls[k].p : k \in { j \in 1..Len(ls) : InSetupSection(ls, j)
                        /\ ls[j].k \in {"ChoseCoin", "WonToss", "DecidedGo", "OpeningHand"} } }

WinnerSeen(ls) == \E k \in 1..Len(ls) : InSetupSection(ls, k) /\ ls[k].k = "WonToss"

\* C8: parseSetup fails with 'Could not identify players' when the setup section
\* names fewer than two distinct usernames, and otherwise with the missing
\* coin flip error when the section has no 'won the coin toss' line
C8_SetupErrors ==
  ("unset" \notin DOMAIN setupResult) =>
    /\ Cardinality(SeenNames(lines)) < 2 =>
         /\ "error" \in DOMAIN setupResult
         /\ setupResult.error = "Could not identify players in the log"
    /\ (Cardinality(SeenNames(lines)) >= 2 /\ ~WinnerSeen(lines)) =>
         /\ "error" \in DOMAIN setupResult
         /\ setupResult.error = "Invalid log format: missing coin flip information"
    /\ (Cardinality(SeenNames(lines)) >= 2 /\ WinnerSeen(lines)) => "error" \notin DOMAIN setupResult

\* the log names two players and a winner, but one of the lines lies outside the
\* setup section, which has neither two names nor a winner: the players error
C8_Witness ==
  /\ "error" \in DOMAIN setupResult
  /\ setupResult.error = "Could not identify players in the log"
  /\ \E k \in 1..Len(lines) : lines[k].k = "WonToss"
  /\ \E k \in 1..Len(lines) : lines[k].k = "OpeningHand"
  /\ \E k \in 1..Len(lines) : lines[k].k = "Setup"
  /\ ~WinnerSeen(lines)

\* the lines of a concession
ConcessionKinds == {"Conceded", "YouConceded", "OpponentConceded"}

\* C9: a log with one concession line, in a turn, and no deck-out or all-prizes
\* line parses successfully with winCondition 'concede'; the winner is the
\* other player for 'X conceded' and W for '... conceded. W wins.'
C9_ConcedeDetected ==
  Returned =>
    \A k \in 1..Len(lines) :
      ( /\ lines[k].k \in ConcessionKinds
        /\ k > FirstMarker(lines)
        /\ \A j \in 1..Len(lines) : j # k => lines[j].k \notin ConcessionKinds
        /\ \A j \in 1..Len(lines) : lines[j].k \notin {"DeckOut", "TookAllPrizes"} )
      => /\ result.success
         /\ result.data.winCondition = "concede"
         /\ result.data.winner =
              IF lines[k].k = "Conceded"
              THEN (IF lines[k].p = result.data.players[1].username
                    THEN result.data.players[2].username ELSE result.data.players[1].username)
              ELSE lines[k].p

\* ten times the damage counters player p put with the lines ls[1..n] that lie in a turn
RECURSIVE CounterDamage(_, _, _)
CounterDamage(ls, p, n) ==
  IF n = 0 THEN 0
  ELSE CounterDamage(ls, p, n - 1)
       + (IF ls[n].k \in {"PutCounters", "PutCountersPlain"} /\ ls[n].p = p /\ n > FirstMarker(ls)
          THEN 10 * ls[n].n ELSE 0)

\* C10: damage counters count as damage: totalDamageDealt of a player is the
\* damage of the player's attacks plus 10 for every damage counter the player put
C10_CountersCounted ==
  Succeeded =>
    \A k \in 1..2 :
      LET p == result.data.players[k].username
      IN result.data.statistics[p].totalDamageDealt
           = DamageOf(result.data.events, p, Len(result.data.events))
             + CounterDamage(lines, p, Len(lines))

(***************************************************************************)
(* reconstructDecks on the event lists of a MatchData.                      *)
(***************************************************************************)
MaxDeckEvents == 5

\* the events a list is drawn from, their ids and timestamps set by Numbered
DeckAlphabet ==
  { EvolveEvent(0, P1, "Charmander", "Charmeleon", 1, 0),
    EvolveEvent(0, P1, "Charmeleon", "Charizard", 1, 0),
    EvolveEvent(0, P1, "Charmeleon", "Charmander", 1, 0),
    EvolveEvent(0, P2, "Charmander", "Charmeleon", 1, 0),
    TrainerEvent(0, P1, "Basic Fire Energy", getTrainerCategory("Basic Fire Energy"), 1, 0),
    EnergyEvent(0, P1, "Basic Fire Energy", "Charmander", 1, 0),
    DrawEvent(0, P2, 2, <<"Jet Energy", "Nest Ball">>, 1, 0) }

Numbered(events) ==
  [k \in 1..Len(events) |-> [events[k] EXCEPT !.id = k, !.timestamp = k - 1]]

DeckEventLists == { Numbered(es) : es \in SeqsUpTo(DeckAlphabet, MaxDeckEvents) }

InitDeckFrom(EventLists) ==
  /\ lines = <<>>
  /\ pc = "reconstructDecks"
  /\ eventCounter = 0
  /\ su = SetupLocals
  /\ setupResult = NoSetup
  /\ tp = TurnLocals(0, <<JsString(P1), JsString(P2)>>)
  /\ result = NoResult
  /\ previous = NoResult
  /\ \E events \in EventLists :
       matchData = [players |-> <<JsPlayer(P1, TRUE), JsPlayer(P2, FALSE)>>, events |-> events]
  /\ dk = [pi |-> 1, cardMap |-> <<>>, evolutionChains |-> <<>>,
           ci |-> 1, stage |-> 0, current |-> Undefined]
  /\ playerDecks = <<>>
  /\ sprites = SpriteServiceLoaded
  /\ cardFetcher = CardFetcherLoaded
  /\ app = AppMounted

InitDeck == InitDeckFrom(DeckEventLists)

SpecDeck == InitDeck /\ [][NextDeck]_vars

\* shorter event lists, with evolve events in both directions
MaxEvolveEvents == 3

EvolveAlphabet ==
  { EvolveEvent(0, P1, "Charmander", "Charmeleon", 1, 0),
    EvolveEvent(0, P1, "Charmeleon", "Charmander", 1, 0),
    EvolveEvent(0, P2, "Charmeleon", "Charizard", 1, 0),
    EnergyEvent(0, P1, "Basic Fire Energy", "Charmander", 1, 0) }

EvolveEventLists == { Numbered(es) : es \in SeqsUpTo(EvolveAlphabet, MaxEvolveEvents) }

InitEvolve == InitDeckFrom(EvolveEventLists)

\* reconstructDecks is one call: it runs as long as it has a step to take
SpecDeckFair == InitEvolve /\ [][NextDeck]_vars /\ WF_vars(NextDeck)

\* C4: in the decks reconstructDecks returns, every card that is not a basic
\* energy card (category energy, subcategory basic) has count at most 4
C4_CopiesCapped ==
  pc = "returned" =>
    \A d \in 1..Len(playerDecks) :
      \A i \in 1..Len(playerDecks[d].value.cards) :
        LET card == playerDecks[d].value.cards[i]
        IN ~(card.category = "energy" /\ card.subcategory = "basic") => card.count <= 4

\* C5: in the pokemon list of every deck reconstructDecks returns, a card
\* whose evolvesFrom names a card of the list comes after that card
C5_BaseBeforeEvolution ==
  pc = "returned" =>
    \A d \in 1..Len(playerDecks) :
      LET pokemon == playerDecks[d].value.pokemon
      IN \A a \in 1..Len(pokemon) : \A b \in 1..Len(pokemon) :
           pokemon[b].evolvesFrom = pokemon[a].name => a < b

\* C6: reconstructDecks returns, with a deck for each of the two players, and
\* with totalCardsObserved 0 in both when the event list is empty
C6_ReconstructReturns ==
  <>( /\ pc = "returned"
      /\ { playerDecks[d].key : d \in 1..Len(playerDecks) } = {P1, P2}
      /\ matchData.events = <<>> =>
           \A d \in 1..Len(playerDecks) : playerDecks[d].value.totalCardsObserved = 0 )

\* the prize cards the lines ls[1..n] that lie in a turn report player p taking
RECURSIVE PrizesReported(_, _, _)
PrizesReported(ls, p, n) ==
  IF n = 0 THEN 0
  ELSE PrizesReported(ls, p, n - 1)
       + (IF n > FirstMarker(ls) /\ ls[n].p = p
          THEN (CASE ls[n].k = "TookPrize" -> 1
                  [] ls[n].k = "TookPrizes" -> ls[n].n
                  [] OTHER -> 0)
          ELSE 0)

\* C11: prizeCardsTaken of a player is the number of prize cards the log reports
\* the player taking: 1 for 'took a Prize card', N for 'took N Prize cards'
C11_PrizesCountedInFull ==
  Succeeded =>
    \A k \in 1..2 :
      LET p == result.data.players[k].username
      IN result.data.statistics[p].prizeCardsTaken = PrizesReported(lines, p, Len(lines))

(***************************************************************************)
(* parseLog called twice on the same text, other parses in between.         *)
(***************************************************************************)
MaxRepeatLines == 4
\* the most events a parse made before a call leaves in the counter
MaxOtherEvents == 2

RepeatLogs == { pre \o body : pre \in SetupSections, body \in SeqsUpTo(TurnAlphabet, MaxRepeatLines) }

InitRepeat == InitParseFrom(RepeatLogs, 0..MaxOtherEvents)

\* the caller keeps the result, other texts are parsed, and parseLog is called
\* on the same text again
ParseAgain ==
  /\ pc = "done"
  /\ previous = NoResult
  /\ previous' = result
  /\ eventCounter' \in 0..MaxOtherEvents
  /\ pc' = "parseLog"
  /\ su' = SetupLocals
  /\ setupResult' = NoSetup
  /\ tp' = TurnLocals(0, <<JsString(P1), JsString(P2)>>)
  /\ result' = NoResult
  /\ UNCHANGED <<lines, deckVars, apiVars>>

NextRepeat ==
  \/ ParseLogStart
  \/ ParseSetupStep
  \/ ParseSetupReturn
  \/ ParseTurnsStep
  \/ ParseLogFinish
  \/ ParseAgain

SpecRepeat == InitRepeat /\ [][NextRepeat]_vars

\* C12: a second call of parseLog on the same text returns a result equal to
\* that of the first, ids included, whatever the counter was before each call
C12_SameResultAgain ==
  (pc = "done" /\ previous # NoResult) => result = previous

\* the second call returned a match with an event of a second turn
C12_Witness ==
  /\ pc = "done"
  /\ previous # NoResult
  /\ result.success
  /\ \E k \in 1..Len(result.data.events) :
       result.data.events[k].turn = 2 /\ result.data.events[k].id = k

(***************************************************************************)
(* Setup sections that name up to three users.                              *)
(***************************************************************************)
P3 == "Player3"

MaxPlayerLines == 4

PlayerAlphabet ==
  { WonToss(P1), WonToss(P3), DecidedGo(P2, "second"), DecidedGo(P3, "first"),
    OpeningHand(P1, 7), OpeningHand(P2, 7), ChoseCoin(P3) }

\* a setup section of these lines and one turn with an attack
PlayerLogs ==
  { <<SetupHeader>> \o section \o <<TurnMarker, Attack(P1, "Charmander", "Ember", P2, "Pikachu ex", 20)>> :
      section \in SeqsUpTo(PlayerAlphabet, MaxPlayerLines) }

InitPlayers == InitParse(PlayerLogs)
SpecPlayers == InitPlayers /\ [][NextParse]_vars

\* C13: a successful setup parse has two players of distinct usernames,
\* exactly one of them with isFirst
C13_OneFirstPlayer ==
  ("players" \in DOMAIN setupResult) =>
    /\ Len(setupResult.players) = 2
    /\ setupResult.players[1].username # setupResult.players[2].username
    /\ setupResult.players[1].isFirst # setupResult.players[2].isFirst

\* a successful setup parse whose go-first decider is neither of the two players
C13_Witness ==
  /\ "players" \in DOMAIN setupResult
  /\ su.whoGoesFirst = P3
  /\ setupResult.players[1].username # P3
  /\ setupResult.players[2].username # P3
  /\ setupResult.players[2].isFirst


(***************************************************************************)
(* Coin flips: logs whose turns hold "flipped T coins, and H landed on     *)
(* heads" lines, one of them with more heads than coins.  A property key   *)
(* of a JS object is a string, so stats[undefined] is the entry of a       *)
(* player whose username is the word "undefined"; the model's Undefined    *)
(* is that same string.                                                    *)
(***************************************************************************)
PU == "undefined"
MaxFlipLines == 4

FlipSections ==
  { <<SetupHeader, WonToss(P1), DecidedGo(P1, "first"), OpeningHand(P1, 7), OpeningHand(P2, 7)>>,
    <<SetupHeader, WonToss(PU), DecidedGo(PU, "first"), OpeningHand(PU, 7), OpeningHand(P2, 7)>> }

FlipAlphabet ==
  { TurnMarker,
    FlippedCoins(P2, 2, 1),
    FlippedCoins(P2, 1, 3),
    Attack(P2, "Pikachu ex", "Thunder", PU, "Charmander", 30) }

FlipLogs == { pre \o body : pre \in FlipSections, body \in SeqsUpTo(FlipAlphabet, MaxFlipLines) }

InitFlips == InitParse(FlipLogs)

SpecFlips == InitFlips /\ [][NextParse]_vars

\* the counters of PlayerStatistics, in a fixed order
Counters(st) ==
  <<st.totalDamageDealt, st.totalCardsDrawn, st.pokemonKnockedOut, st.prizeCardsTaken,
    st.coinFlips.heads, st.coinFlips.tails, st.turnsPlayed>>

\* C14: in the result of parseLog every counter of every player is at least
\* 0, and folding one more event of the stream lowers no counter.
C14_CountersNeverDecrease ==
  Succeeded =>
    LET data == result.data
        names == <<data.players[1].username, data.players[2].username>>
        After(k) == calculateStatistics(SubSeq(data.events, 1, k), names)
    IN /\ \A p \in DOMAIN data.statistics : \A c \in 1..7 : Counters(data.statistics[p])[c] >= 0
       /\ \A k \in 1..Len(data.events) : \A p \in DOMAIN data.statistics : \A c \in 1..7 :
            Counters(After(k)[p])[c] >= Counters(After(k - 1)[p])[c]


(***************************************************************************)
(* Knockouts and the prizes taken for them                                 *)
(***************************************************************************)
MaxKnockoutLines == 4

KnockoutAlphabet ==
  { TurnMarker,
    KnockedOut(P2, "Pikachu"),
    KnockedOut(P2, "Charmander"),
    TookPrize(P1),
    TookPrizes(P1, 2) }

KnockoutLogs ==
  { pre \o body : pre \in SetupSections, body \in SeqsUpTo(KnockoutAlphabet, MaxKnockoutLines) }

InitKnockouts == InitParse(KnockoutLogs)

SpecKnockouts == InitKnockouts /\ [][NextParse]_vars

\* the number of "was Knocked Out!" lines of the turns
KnockoutsReported(ls) ==
  Cardinality({ n \in 1..Len(ls) : n > FirstMarker(ls) /\ ls[n].k = "KnockedOut" })

\* the number of knockout events whose player satisfies Credited
KnockoutEvents(events, Credited(_)) ==
  Cardinality({ k \in 1..Len(events) : events[k].type = "knockout" /\ Credited(events[k].player) })

\* C15: a player's prizeCardsTaken is at least the number of knockout events
\* credited to the player, and when the log reports as many prize cards taken
\* as knockouts (one prize for every knockout) the prizeCardsTaken of the two
\* players add up to the number of knockout events.
C15_PrizesMatchKnockouts ==
  Succeeded =>
    LET data == result.data
        name1 == data.players[1].username
        name2 == data.players[2].username
        Anyone(p) == TRUE
    IN /\ \A name \in {name1, name2} :
            LET Is(p) == p = name
            IN data.statistics[name].prizeCardsTaken >= KnockoutEvents(data.events, Is)
       /\ (PrizesReported(lines, name1, Len(lines)) + PrizesReported(lines, name2, Len(lines))
             = KnockoutsReported(lines))
          => (data.statistics[name1].prizeCardsTaken + data.statistics[name2].prizeCardsTaken
                = KnockoutEvents(data.events, Anyone))


(***************************************************************************)
(* The sprite service under any interleaving of its callers                *)
(***************************************************************************)
InitSprites == InitParse({<<>>})

SpecSprites == InitSprites /\ [][NextSprites]_vars

\* the fetch() calls made for a normalized name
ApiRequests(normalizedName) ==
  { i \in 1..Len(sprites.promises) : sprites.promises[i].normalizedName = normalizedName }

InitCards == InitParse({<<>>})

SpecCards == InitCards /\ [][NextCards]_vars

\* the API requests whose query names the card
QueriesNaming(cardName) ==
  { b \in 1..Len(cardFetcher.batches) :
      /\ cardFetcher.batches[b].at # "rateLimit"
      /\ \E k \in 1..Len(cardFetcher.batches[b].cardNames) :
           cardFetcher.batches[b].cardNames[k] = cardName }

\* C17: a card name is sent to the API in at most one request, and all the
\* fetches of the name that have returned gave the same CardData.
C17_OneQueryPerCard ==
  /\ \A cardName \in CardNames : Cardinality(QueriesNaming(cardName)) <= 1
  /\ \A c, d \in 1..Len(cardFetcher.calls) :
       LET one == cardFetcher.calls[c]
           other == cardFetcher.calls[d]
       IN (one.name = other.name /\ one.at = "returned" /\ other.at = "returned")
            => one.value = other.value


(***************************************************************************)
(* Decks of matches whose events name cards in every way the extraction    *)
(* reads: played, evolved, attached, drawn                                 *)
(***************************************************************************)
MaxExtractEvents == 4

ExtractAlphabet ==
  { PlayPokemonEvent(0, P1, "Charmander", "Bench", 1, 0),
    PlayPokemonEvent(0, P2, "Pikachu ex", "Active Spot", 1, 0),
    EvolveEvent(0, P1, "Charmander", "Charmeleon", 1, 0),
    TrainerEvent(0, P2, "Nest Ball", getTrainerCategory("Nest Ball"), 1, 0),
    EnergyEvent(0, P1, "Basic Fire Energy", "Charmander", 1, 0),
    EnergyEvent(0, P2, "Jet Energy", "Pikachu ex", 1, 0),
    DrawEvent(0, P1, 2, <<"Jet Energy", "Charizard">>, 1, 0) }

ExtractEventLists == { Numbered(es) : es \in SeqsUpTo(ExtractAlphabet, MaxExtractEvents) }

InitExtract == InitDeckFrom(ExtractEventLists)

SpecExtract == InitExtract /\ [][NextDeck]_vars

\* the card names an event carries
NamedCards(event) ==
  CASE event.type = "play_pokemon" -> {event.details.pokemonName}
    [] event.type = "evolve" -> {event.details.pokemonName, event.details.evolvedFrom}
    [] event.type = "play_trainer" -> {event.details.trainerName}
    [] event.type = "attach_energy" -> {event.description[3]}
    [] event.type = "draw" ->
         IF "cardNames" \in DOMAIN event.details
         THEN { event.details.cardNames[i] : i \in 1..Len(event.details.cardNames) }
         ELSE {}
    [] OTHER -> {}

\* the events of the match attributed to a player that name a card
EventsNaming(playerName, cardName) ==
  { k \in 1..Len(matchData.events) :
      matchData.events[k].player = playerName /\ cardName \in NamedCards(matchData.events[k]) }

\* C18: a Pokemon a player's events name exactly twice, as pokemonName of a
\* play_pokemon event and as evolvedFrom of a later evolve event, has count 1
\* in the player's deck.
C18_PlayedThenEvolvedCountsOnce ==
  pc = "returned" =>
    \A d \in 1..Len(playerDecks) :
      \A i \in 1..Len(playerDecks[d].value.cards) :
        LET card == playerDecks[d].value.cards[i]
            naming == EventsNaming(playerDecks[d].key, card.name)
        IN (\E k \in naming : \E j \in naming :
              /\ naming = {k, j} /\ k < j
              /\ matchData.events[k].type = "play_pokemon"
              /\ matchData.events[j].type = "evolve"
              /\ matchData.events[j].details.evolvedFrom = card.name)
           => card.count = 1

\* C19: every card an event of a player names is in the player's deck with
\* count at least 1 and confidence 'confirmed', and every card of the deck is
\* named by an event of the player.
C19_NamedCardsExtracted ==
  pc = "returned" =>
    \A d \in 1..Len(playerDecks) :
      LET playerName == playerDecks[d].key
          deckCards == playerDecks[d].value.cards
      IN /\ \A k \in 1..Len(matchData.events) :
              matchData.events[k].player = playerName =>
                \A cardName \in NamedCards(matchData.events[k]) :
                  \E i \in 1..Len(deckCards) :
                    /\ deckCards[i].name = cardName
                    /\ deckCards[i].count >= 1
                    /\ deckCards[i].confidence = "confirmed"
         /\ \A i \in 1..Len(deckCards) : EventsNaming(playerName, deckCards[i].name) # {}

\* the first player evolved, attached and drew, the second played a trainer:
\* the first deck holds the five cards of the first and not the trainer
C19_Witness ==
  /\ pc = "returned"
  /\ Len(playerDecks) = 2
  /\ playerDecks[1].key = P1
  /\ { playerDecks[1].value.cards[i].name : i \in 1..Len(playerDecks[1].value.cards) }
       = {"Charmander", "Charmeleon", "Basic Fire Energy", "Jet Energy", "Charizard"}
  /\ \E k \in 1..Len(matchData.events) :
       matchData.events[k].player = P2 /\ matchData.events[k].type = "play_trainer"
  /\ { playerDecks[2].value.cards[i].name : i \in 1..Len(playerDecks[2].value.cards) } = {"Nest Ball"}


(***************************************************************************)
(* Lines of a turn that satisfy one pattern, several, or none              *)
(***************************************************************************)
MaxEventLines == 3

LineAlphabet ==
  { TurnMarker,
    Blank,
    EndedTurn(P1),
    Attack(P1, "Charmander", "Ember", P2, "Pikachu ex", 20),
    PlayedStadium(P1, "Artazon"),
    PlayedPokemon(P2, "Pikachu ex", "Bench"),
    Attached(P1, "Air Balloon", "Charmander"),
    DrewAndPlayed(P2, "Pikachu ex"),
    DrewPlayedFlipped(P1, "Charmander", 1, 1) }

LineLogs == { pre \o body : pre \in SetupSections, body \in SeqsUpTo(LineAlphabet, MaxEventLines) }

InitLines == InitParse(LineLogs)

SpecLines == InitLines /\ [][NextParse]_vars

\* the patterns parseTurns makes events from, in the order the claim gives
PatternOrder ==
  <<"deckOut", "prizeWin", "attack", "knockout", "prizeTaken", "switchedIn", "usedAbility",
    "evolved", "playedStadium", "playedPokemon", "playedTrainer", "attachedEnergy",
    "drewCard", "drewCards", "coinFlip">>

\* the event is the one the pattern stands for
EventOf(pattern, event) ==
  CASE pattern \in {"deckOut", "prizeWin"} -> event.type = "win"
    [] pattern = "attack" -> event.type = "attack"
    [] pattern = "knockout" -> event.type = "knockout"
    [] pattern = "prizeTaken" -> event.type = "prize_taken"
    [] pattern = "switchedIn" -> event.type = "switch"
    [] pattern = "usedAbility" -> event.type = "use_ability"
    [] pattern = "evolved" -> event.type = "evolve"
    [] pattern = "playedStadium" ->
         event.type = "play_trainer" /\ event.details.trainerCategory = "stadium"
    [] pattern = "playedPokemon" -> event.type = "play_pokemon"
    [] pattern = "playedTrainer" -> event.type = "play_trainer"
    [] pattern = "attachedEnergy" -> event.type \in {"attach_energy", "play_trainer"}
    [] pattern = "drewCard" -> event.type = "draw" /\ event.details.cardCount = 1
    [] pattern = "drewCards" -> event.type = "draw"
    [] pattern = "coinFlip" -> event.type = "coin_flip"

\* C20: the iteration of parseTurns on a line inside a turn that is neither a
\* turn marker nor a skip line adds at most one event and moves the timestamp
\* by the number of events it added; when the line satisfies several
\* patterns, the event added is that of the earliest of them in PatternOrder.
C20_FirstPatternWins ==
  (pc = "parseTurns" /\ tp.i < Len(lines)) =>
    LET line == lines[tp.i + 1]
        after == TurnLine(tp, lines, eventCounter + 1)
        produced == Len(after.allEvents) - Len(tp.allEvents)
        satisfied == { k \in 1..Len(PatternOrder) : matchLine(line, PatternOrder[k]) }
        earliest == CHOOSE k \in satisfied : \A j \in satisfied : k <= j
    IN (~isTurnStart(line) /\ ~shouldSkipLine(line) /\ tp.currentTurn # <<>>) =>
         /\ produced \in {0, 1}
         /\ after.timestamp - tp.timestamp = produced
         /\ Cardinality(satisfied) >= 2 =>
              /\ produced = 1
              /\ EventOf(PatternOrder[earliest], Last(after.allEvents))


(***************************************************************************)
(* Lines the turn parser drops: no pattern matches them, or no turn has    *)
(* started                                                                 *)
(***************************************************************************)
MaxDroppedLines == 4

DroppedAlphabet ==
  { TurnMarker,
    EndedTurn(P1),
    TookPrizes(P1, 2),
    DamageBullet(20),
    Attack(P1, "Charmander", "Ember", P2, "Pikachu ex", 20),
    DeckOut(P2) }

DroppedLogs ==
  { pre \o body : pre \in SetupSections, body \in SeqsUpTo(DroppedAlphabet, MaxDroppedLines) }

InitDropped == InitParse(DroppedLogs)

SpecDropped == InitDropped /\ [][NextParse]_vars

\* C21: the iteration of parseTurns on a line that is no turn marker, no skip
\* line and matches no pattern changes nothing but the line index and makes
\* no event; on a line that is no turn marker and comes before the first
\* turn marker it makes no event and no turn.
C21_UnmatchedLineDropped ==
  (pc = "parseTurns" /\ tp.i < Len(lines)) =>
    LET line == lines[tp.i + 1]
        after == TurnLine(tp, lines, eventCounter + 1)
    IN /\ (~isTurnStart(line) /\ ~shouldSkipLine(line) /\ Matching(line) = {})
            => after = [tp EXCEPT !.i = @ + 1]
       /\ (~isTurnStart(line) /\ tp.currentTurn = <<>>)
            => /\ after.allEvents = tp.allEvents
               /\ after.turns = tp.turns
               /\ after.currentTurn = <<>>

\* an unmatched line has just been read inside a turn that holds an event,
\* with a damage breakdown pending and a winner set
C21_Witness ==
  /\ pc \in {"parseTurns", "turnsReturn"}
  /\ tp.i >= 1
  /\ Matching(lines[tp.i]) = {} /\ ~shouldSkipLine(lines[tp.i]) /\ ~isTurnStart(lines[tp.i])
  /\ tp.currentTurn # <<>>
  /\ tp.timestamp = 1
  /\ tp.winner = P2
  /\ tp.lastDamageBreakdown # <<>>

\* an attack line has just been read with no turn started: no event was made
C21_WitnessBeforeTurn ==
  /\ pc \in {"parseTurns", "turnsReturn"}
  /\ tp.i >= 1
  /\ lines[tp.i].k = "Attack"
  /\ tp.currentTurn = <<>>
  /\ tp.allEvents = <<>>


(***************************************************************************)
(* The turns of a successful parse                                         *)
(***************************************************************************)
\* the number of turn markers among the lines
MarkerCount(ls) == Cardinality({ k \in 1..Len(ls) : isTurnStart(ls[k]) })

KnockoutsOf(ls, q) ==
  { n \in 1..Len(ls) : n > FirstMarker(ls) /\ ls[n].k = "KnockedOut" /\ ls[n].p = q }

\* C23: every knockout event is attributed to one of the two players, and
\* pokemonKnockedOut of a player is the number of "X's P was Knocked Out"
\* lines of the turns in which X is the other player.
C23_KnockoutCreditsOpponent ==
  Succeeded =>
    LET data == result.data
        name == [k \in 1..2 |-> data.players[k].username]
    IN /\ \A e \in 1..Len(data.events) :
            data.events[e].type = "knockout" => data.events[e].player \in {name[1], name[2]}
       /\ \A k \in 1..2 :
            data.statistics[name[k]].pokemonKnockedOut
              = Cardinality(KnockoutsOf(lines, name[3 - k]))


\* ---------------------------------------------------------------------------
\* Win lines and the prize-count inference of parseLog
\* ---------------------------------------------------------------------------

\* A username equal to the default parseLog gives to a match without a winner.
PX == "Unknown"

MaxPrizeLines == 7

Rep(x, n) == [k \in 1..n |-> x]

PrizeSections ==
  { <<SetupHeader, OpeningHand(P1, 7), OpeningHand(P2, 7), WonToss(P2)>>,
    <<SetupHeader, OpeningHand(PX, 7), OpeningHand(P2, 7), WonToss(P2)>> }

FirstOf(pre) == pre[2].p

WinTails(first) ==
  { <<>>, <<DeckOut(first)>>, <<TookAllPrizes(P2)>>,
    <<DeckOut(first), TookAllPrizes(P2)>>, <<TookAllPrizes(P2), DeckOut(first)>> }

PrizeLogs ==
  UNION { { pre \o <<TurnMarker>> \o Rep(TookPrize(FirstOf(pre)), a) \o Rep(TookPrize(P2), b) \o tail :
              a \in 0..MaxPrizeLines, b \in 0..MaxPrizeLines, tail \in WinTails(FirstOf(pre)) } :
          pre \in PrizeSections }

InitPrizes == InitParse(PrizeLogs)

SpecPrizes == InitPrizes /\ [][NextParse]_vars

\* The win lines of a log that stand after its first turn marker, in order.
WinLines(ls) ==
  LET first == CHOOSE i \in 1..(Len(ls) + 1) :
                 /\ i = Len(ls) + 1 \/ isTurnStart(ls[i])
                 /\ \A j \in 1..(i - 1) : ~isTurnStart(ls[j])
  IN SelectSeq([k \in 1..Len(ls) |-> IF k > first THEN ls[k] ELSE Blank],
               LAMBDA l : l.k \in {"DeckOut", "TookAllPrizes"})

WinConditionOf(line) == IF line.k = "DeckOut" THEN "deck_out" ELSE "prizes"

WinEvents(events) == SelectSeq(events, LAMBDA e : e.type = "win")

\* C24: every deck-out or all-prizes win line inside a turn yields a win event
\* attributed to the winner the line names, and the winner and winCondition of
\* the MatchData are those of the last win event of its events: the inference
\* from prize counts never replaces a winner that a win line set.
C24_WinLineSetsWinner ==
  Succeeded =>
    LET wins == WinEvents(result.data.events)
        named == WinLines(lines)
    IN /\ Len(wins) = Len(named)
       /\ \A k \in 1..Len(wins) :
            /\ wins[k].player = named[k].p
            /\ wins[k].details.winCondition = WinConditionOf(named[k])
       /\ Len(wins) > 0 =>
            /\ result.data.winner = wins[Len(wins)].player
            /\ result.data.winCondition = wins[Len(wins)].details.winCondition


PrizesOf(name) == result.data.statistics[name].prizeCardsTaken

\* C25: when the turns held no win line, a first-listed player with 6 or more
\* prize cards taken is the winner; failing that, a second-listed player with
\* 6 or more is; the winCondition is then 'prizes'. When neither has 6, no
\* winner is inferred and the winner stays 'Unknown'.
C25_PrizeInference ==
  (Succeeded /\ WinEvents(result.data.events) = <<>>) =>
    LET first == result.data.players[1].username
        second == result.data.players[2].username
    IN IF PrizesOf(first) >= 6
         THEN result.data.winner = first /\ result.data.winCondition = "prizes"
       ELSE IF PrizesOf(second) >= 6
         THEN result.data.winner = second /\ result.data.winCondition = "prizes"
       ELSE result.data.winner = "Unknown"

C25_Witness ==
  /\ Succeeded
  /\ WinEvents(result.data.events) = <<>>
  /\ result.data.players[1].username = P1
  /\ PrizesOf(P1) = 6
  /\ PrizesOf(P2) = 7
  /\ result.data.winner = P1
  /\ result.data.winCondition = "prizes"


RECURSIVE TurnEvents(_, _)
\* the events of the first k turns, one turn after the other
TurnEvents(turns, k) ==
  IF k = 0 THEN <<>> ELSE TurnEvents(turns, k - 1) \o turns[k].events

TurnsHolding(turns, event) ==
  { j \in 1..Len(turns) : \E m \in 1..Len(turns[j].events) : turns[j].events[m] = event }

\* C26: the events of a MatchData are the setup events, all of turn 0,
\* followed by the events of its turns, turn after turn in list order; each
\* event of a turn n >= 1 is held by exactly one Turn, and that Turn has number n.
C26_EventsAreSetupThenTurns ==
  Succeeded =>
    LET events == result.data.events
        turns == result.data.turns
        ofTurns == TurnEvents(turns, Len(turns))
        setupCount == Len(events) - Len(ofTurns)
    IN /\ setupCount >= 0
       /\ \A k \in 1..setupCount : events[k].turn = 0
       /\ SubSeq(events, setupCount + 1, Len(events)) = ofTurns
       /\ \A k \in 1..Len(events) :
            events[k].turn >= 1 =>
              /\ Cardinality(TurnsHolding(turns, events[k])) = 1
              /\ \A j \in TurnsHolding(turns, events[k]) : turns[j].number = events[k].turn

C26_Witness ==
  /\ Succeeded
  /\ Len(result.data.turns) = 2
  /\ Len(result.data.turns[1].events) = 2
  /\ result.data.turns[2].number = 3
  /\ result.data.events[1].turn = 0
  /\ Len(result.data.events) > Len(TurnEvents(result.data.turns, 2))


\* ---------------------------------------------------------------------------
\* The fold of calculateStatistics, event by event
\* ---------------------------------------------------------------------------

MaxStatLines == 2

StatAlphabet ==
  { DrewCards(P1, 2), DrewCards(P3, 2),
    Attack(P1, "Charmander", "Ember", P2, "Pikachu ex", 20),
    KnockedOut(P2, "Pikachu ex"),
    TookPrize(P2),
    PlayedTrainer(P1, "Nest Ball"),
    FlippedCoins(P2, 2, 1),
    PlayedPokemon(P2, "Pikachu ex", "Bench"),
    Evolved(P1, "Charmander", "Charmeleon"),
    Attached(P1, "Fire Energy", "Charmander"),
    UsedAbility(P2, "Pikachu ex", "Resolute Heart"),
    SwitchedIn(P1, "Charmander"),
    DeckOut(P1) }

StatLogs ==
  { <<SetupHeader, OpeningHand(P1, 7), OpeningHand(P2, 7), TookMulligan(P1), WonToss(P2), TurnMarker>>
      \o body : body \in SeqsUpTo(StatAlphabet, MaxStatLines) }

InitStats == InitParse(StatLogs)

SpecStats == InitStats /\ [][NextParse]_vars

\* the event types that the switch of calculateStatistics has no case for
UncountedTypes ==
  {"play_pokemon", "evolve", "attach_energy", "use_ability", "switch", "mulligan", "win"}

\* the statistics after the first k events of the result
StatsAfter(k) ==
  calculateStatistics(SubSeq(result.data.events, 1, k),
                      <<result.data.players[1].username, result.data.players[2].username>>)

\* C27: folding one event changes the statistics of the event's player only;
\* an event of type play_pokemon, evolve, attach_energy, use_ability, switch,
\* mulligan or win, and an event attributed to a name that is neither
\* player's, changes the statistics of nobody.
C27_FoldChangesOnePlayer ==
  Succeeded =>
    LET events == result.data.events
        names == { result.data.players[1].username, result.data.players[2].username }
    IN /\ \A k \in 1..Len(events) : \A name \in names :
            (name # events[k].player \/ events[k].type \in UncountedTypes)
              => StatsAfter(k)[name] = StatsAfter(k - 1)[name]
       /\ \A name \in names :
            [result.data.statistics[name] EXCEPT !.turnsPlayed = 0] = StatsAfter(Len(events))[name]

C27_Witness ==
  /\ Succeeded
  /\ \E k \in 1..Len(result.data.events) :
       /\ result.data.events[k].type = "draw"
       /\ result.data.events[k].player = P3
  /\ \E k \in 1..Len(result.data.events) :
       /\ result.data.events[k].type = "win"
       /\ result.data.events[k].player = P1
  /\ \E k \in 1..Len(result.data.events) :
       /\ result.data.events[k].type = "mulligan"
       /\ result.data.events[k].player = P1
  /\ result.data.statistics[P1] = [createEmptyPlayerStats EXCEPT !.totalCardsDrawn = 7]
  /\ result.data.statistics[P2] = [createEmptyPlayerStats EXCEPT !.totalCardsDrawn = 7]


TurnsOf(name) ==
  { j \in 1..Len(result.data.turns) : result.data.turns[j].player = name }

\* C28: in a successful result each player's turnsPlayed is the number of
\* the Turns of MatchData.turns whose player is that player, and the
\* turnsPlayed of the two players add up to the number of Turns.
C28_TurnsPlayedCountsTurns ==
  Succeeded =>
    LET first == result.data.players[1].username
        second == result.data.players[2].username
    IN /\ result.data.statistics[first].turnsPlayed = Cardinality(TurnsOf(first))
       /\ result.data.statistics[second].turnsPlayed = Cardinality(TurnsOf(second))
       /\ result.data.statistics[first].turnsPlayed + result.data.statistics[second].turnsPlayed
            = Len(result.data.turns)


\* the evolve events of the match whose evolved name is `name`
EvolveEventsTo(name) ==
  { k \in 1..Len(matchData.events) :
      /\ matchData.events[k].type = "evolve"
      /\ OrElse(matchData.events[k].details, "pokemonName", Undefined) = name
      /\ OrElse(matchData.events[k].details, "evolvedFrom", Undefined) # Undefined }

\* the base the evolved-to-base map holds for `name`: Map.set keeps the last
BaseOf(name) ==
  LET last == CHOOSE k \in EvolveEventsTo(name) : \A j \in EvolveEventsTo(name) : j <= k
  IN matchData.events[last].details.evolvedFrom

RECURSIVE Hops(_, _)
\* the number of hops from `name` to the root of the map, at most `fuel`
Hops(name, fuel) ==
  IF EvolveEventsTo(name) = {} \/ fuel = 0 THEN 0
  ELSE 1 + Hops(BaseOf(name), fuel - 1)

\* C29: the evolutionStage of every Pokemon card of a reconstructed deck is
\* the number of hops from its name to the root of the evolved-to-base map of
\* the evolve events, 0 exactly for a name no evolve event evolves to; and a
\* card whose evolvesFrom names a card of the same deck is one stage above it.
C29_StageCountsHops ==
  pc = "returned" =>
    \A d \in 1..Len(playerDecks) :
      LET pokemon == playerDecks[d].value.pokemon
      IN /\ \A b \in 1..Len(pokemon) :
              /\ pokemon[b].evolutionStage = <<Hops(pokemon[b].name, Len(matchData.events))>>
              /\ StageOf(pokemon[b]) = 0 <=> EvolveEventsTo(pokemon[b].name) = {}
         /\ \A a \in 1..Len(pokemon) : \A b \in 1..Len(pokemon) :
              pokemon[b].evolvesFrom = pokemon[a].name
                => StageOf(pokemon[b]) = StageOf(pokemon[a]) + 1

C29_Witness ==
  /\ pc = "returned"
  /\ \E d \in 1..Len(playerDecks) :
       LET pokemon == playerDecks[d].value.pokemon
       IN \E a \in 1..Len(pokemon) : \E b \in 1..Len(pokemon) : \E c \in 1..Len(pokemon) :
            /\ pokemon[a].evolutionStage = <<0>>
            /\ pokemon[b].evolvesFrom = pokemon[a].name
            /\ pokemon[b].evolutionStage = <<1>>
            /\ pokemon[c].evolvesFrom = pokemon[b].name
            /\ pokemon[c].evolutionStage = <<2>>


\* ---------------------------------------------------------------------------
\* A Pokemon evolved from more than one base
\* ---------------------------------------------------------------------------

MaxRebaseEvents == 4

RebaseAlphabet ==
  { EvolveEvent(0, P1, "Charmander", "Charizard", 1, 0),
    EvolveEvent(0, P1, "Charmeleon", "Charizard", 1, 0),
    EvolveEvent(0, P1, "Charmander", "Charmeleon", 1, 0),
    EvolveEvent(0, P2, "Charmeleon", "Charizard", 1, 0),
    EnergyEvent(0, P1, "Basic Fire Energy", "Charmander", 1, 0) }

RebaseEventLists == { Numbered(es) : es \in SeqsUpTo(RebaseAlphabet, MaxRebaseEvents) }

InitRebase == InitDeckFrom(RebaseEventLists)

SpecRebase == InitRebase /\ [][NextDeck]_vars

\* the evolve events of `playerName` whose evolved name is `name`
EvolveEventsBy(playerName, name) ==
  { k \in EvolveEventsTo(name) : matchData.events[k].player = playerName }

\* C30: the evolvesFrom a card got from the first event that supplied it is
\* the one of the reconstructed card: a card evolved first from one base and
\* later from another keeps the first base.
C30_FirstBaseKept ==
  pc = "returned" =>
    \A d \in 1..Len(playerDecks) :
      LET pokemon == playerDecks[d].value.pokemon
          supplying(b) == EvolveEventsBy(playerDecks[d].key, pokemon[b].name)
      IN \A b \in 1..Len(pokemon) :
           supplying(b) # {} =>
             LET first == CHOOSE k \in supplying(b) : \A j \in supplying(b) : k <= j
             IN pokemon[b].evolvesFrom = matchData.events[first].details.evolvedFrom


\* ---------------------------------------------------------------------------
\* The summary of a reconstructed deck
\* ---------------------------------------------------------------------------

\* components/DeckAnalysis: calculateDeckSummary
calculateDeckSummary(deck) ==
  LET pokemonTotal == CountSum(deck.pokemon, Len(deck.pokemon))
      trainersTotal == CountSum(deck.trainers.supporters, Len(deck.trainers.supporters))
                         + CountSum(deck.trainers.items, Len(deck.trainers.items))
                         + CountSum(deck.trainers.tools, Len(deck.trainers.tools))
                         + CountSum(deck.trainers.stadiums, Len(deck.trainers.stadiums))
      energyTotal == CountSum(deck.energy.basic, Len(deck.energy.basic))
                       + CountSum(deck.energy.special, Len(deck.energy.special))
  IN [pokemon |-> pokemonTotal, trainers |-> trainersTotal, energy |-> energyTotal,
      total |-> pokemonTotal + trainersTotal + energyTotal]

\* a play_trainer event whose details carry the name and no trainerCategory
TrainerEventNoCategory(id, player, trainerName, turn, timestamp) ==
  GameEvent(id, turn, player, "play_trainer", <<player, "played", trainerName>>,
            [trainerName |-> trainerName], timestamp)

MaxSummaryEvents == 3

SummaryAlphabet ==
  { PlayPokemonEvent(0, P1, "Charmander", "Bench", 1, 0),
    EvolveEvent(0, P1, "Charmander", "Charmeleon", 1, 0),
    TrainerEvent(0, P1, "Nest Ball", getTrainerCategory("Nest Ball"), 1, 0),
    TrainerEventNoCategory(0, P1, "Nest Ball", 1, 0),
    TrainerEventNoCategory(0, P2, "Artazon", 1, 0),
    EnergyEvent(0, P1, "Basic Fire Energy", "Charmander", 1, 0),
    EnergyEvent(0, P2, "Jet Energy", "Pikachu ex", 1, 0) }

SummaryEventLists == { Numbered(es) : es \in SeqsUpTo(SummaryAlphabet, MaxSummaryEvents) }

InitSummary == InitDeckFrom(SummaryEventLists)

SpecSummary == InitSummary /\ [][NextDeck]_vars

\* the partitions of a deck, one after the other
Partitions(deck) ==
  deck.pokemon \o deck.trainers.supporters \o deck.trainers.items \o deck.trainers.tools
    \o deck.trainers.stadiums \o deck.energy.basic \o deck.energy.special

\* C31: in every reconstructed deck each card of the flat list lies in
\* exactly one partition, and the total of calculateDeckSummary, the sum of
\* the counts over the partitions, equals totalCardsObserved.
C31_SummaryMatchesTotal ==
  \A d \in 1..Len(playerDecks) :
    LET deck == playerDecks[d].value
        parts == Partitions(deck)
    IN /\ calculateDeckSummary(deck).total = deck.totalCardsObserved
       /\ \A c \in 1..Len(deck.cards) :
            Cardinality({ k \in 1..Len(parts) : parts[k].name = deck.cards[c].name }) = 1


\* ---------------------------------------------------------------------------
\* The lookahead of a 'drew N cards' line
\* ---------------------------------------------------------------------------

MaxLookLines == 5

LookAlphabet ==
  { Bullet(<<"Nest Ball", "Pikachu ex">>),
    Bullet(<<"Jet Energy">>),
    Blank,
    DrawnCardsNote,
    EndedTurn(P1),
    TurnMarker }

LookLogs ==
  { <<SetupHeader, WonToss(P1), OpeningHand(P1, 7), OpeningHand(P2, 7), TurnMarker, DrewCards(P1, 3)>>
      \o body : body \in SeqsUpTo(LookAlphabet, MaxLookLines) }

InitLook == InitParse(LookLogs)

SpecLook == InitLook /\ [][NextParse]_vars

IsBullet(line) == line.k \in {"Bullet", "DamageBullet"}

\* the positions of the four lines after the line at position n
LookWindow(n) == { m \in (n + 1)..(n + 4) : m <= Len(lines) }

\* the bullet lines of the window before its first line that is neither a
\* bullet, a skip line nor blank
PeekedBullets(n) ==
  { m \in LookWindow(n) :
      /\ IsBullet(lines[m])
      /\ \A j \in LookWindow(n) :
           j < m => (IsBullet(lines[j]) \/ shouldSkipLine(lines[j]) \/ lines[j].k = "Blank") }

RECURSIVE NamesOn(_)
\* the names on the lines at the positions S, in the order of the log
NamesOn(S) ==
  IF S = {} THEN <<>>
  ELSE LET first == CHOOSE m \in S : \A j \in S : m <= j
       IN lines[first].cs \o NamesOn(S \ {first})

\* C32: the draw event of a 'drew N cards' line carries as cardNames the
\* names on the bullet lines among the four lines after it that stand before
\* the first line that is neither a bullet, a skip line nor blank, and no
\* cardNames when there are none; the line alone is consumed, and a bullet
\* line read in its turn creates no event.
C32_LookaheadReadsBullets ==
  (pc = "parseTurns" /\ tp.i < Len(lines) /\ tp.currentTurn # <<>>) =>
    LET line == lines[tp.i + 1]
        after == TurnLine(tp, lines, eventCounter + 1)
        expected == NamesOn(PeekedBullets(tp.i + 1))
    IN /\ line.k = "DrewCards" =>
            /\ after.i = tp.i + 1
            /\ Len(after.allEvents) = Len(tp.allEvents) + 1
            /\ LET event == after.allEvents[Len(after.allEvents)]
               IN /\ event.type = "draw"
                  /\ event.details.cardCount = line.n
                  /\ IF expected = <<>> THEN "cardNames" \notin DOMAIN event.details
                     ELSE event.details.cardNames = expected
       /\ IsBullet(line) => (after.allEvents = tp.allEvents /\ after.i = tp.i + 1)

\* two bullet lines were read through a blank line; the bullet after the
\* fourth line was not
C32_Witness ==
  /\ pc = "parseTurns"
  /\ Len(lines) = 11
  /\ tp.i = 7
  /\ IsBullet(lines[7]) /\ lines[8].k = "Blank" /\ IsBullet(lines[9])
  /\ lines[10].k = "DrawnCardsNote" /\ IsBullet(lines[11])
  /\ Len(tp.allEvents) = 1
  /\ tp.allEvents[1].details.cardNames = lines[7].cs \o lines[9].cs

\* a turn marker ended the lookahead before a bullet line
C32_WitnessMarker ==
  /\ pc = "parseTurns"
  /\ tp.i = 9
  /\ IsBullet(lines[7]) /\ isTurnStart(lines[8]) /\ IsBullet(lines[9])
  /\ Len(tp.allEvents) = 1
  /\ tp.allEvents[1].details.cardNames = lines[7].cs


\* ---------------------------------------------------------------------------
\* The damage breakdown carried to the next attack
\* ---------------------------------------------------------------------------

MaxBreakdownLines == 5

BreakdownAlphabet ==
  { TurnMarker,
    DamageBullet(20),
    DamageBullet(30),
    Attack(P1, "Charmander", "Ember", P2, "Pikachu ex", 20) }

BreakdownLogs ==
  { <<SetupHeader, WonToss(P1), OpeningHand(P1, 7), OpeningHand(P2, 7), TurnMarker>>
      \o body : body \in SeqsUpTo(BreakdownAlphabet, MaxBreakdownLines) }

InitBreakdown == InitParse(BreakdownLogs)

SpecBreakdown == InitBreakdown /\ [][NextParse]_vars

\* the positions, among the first n lines, of the annotation lines that
\* parseTurns has read since the last attack line
CapturedSince(n) ==
  { m \in (FirstMarker(lines) + 1)..n :
      /\ lines[m].k = "DamageBullet"
      /\ \A j \in (m + 1)..n : lines[j].k # "Attack" }

\* the annotation pending after the first n lines: the most recent one
PendingAfter(n) ==
  IF CapturedSince(n) = {} THEN <<>>
  ELSE LET last == CHOOSE m \in CapturedSince(n) : \A j \in CapturedSince(n) : j <= m
       IN <<lines[last].n>>

\* C33: the annotation pending at an attack line is the most recent one
\* captured since the previous attack; the attack event carries it and it is
\* cleared, so the next attack carries none unless one was captured in
\* between; a turn marker leaves the pending annotation as it is.
C33_BreakdownGoesToNextAttack ==
  (pc = "parseTurns" /\ tp.i < Len(lines)) =>
    LET line == lines[tp.i + 1]
        after == TurnLine(tp, lines, eventCounter + 1)
    IN /\ tp.lastDamageBreakdown = PendingAfter(tp.i)
       /\ line.k = "Attack" =>
            /\ Len(after.allEvents) = Len(tp.allEvents) + 1
            /\ LET event == after.allEvents[Len(after.allEvents)]
               IN /\ event.type = "attack"
                  /\ IF PendingAfter(tp.i) = <<>>
                     THEN "damageBreakdown" \notin DOMAIN event.details
                     ELSE event.details.damageBreakdown = PendingAfter(tp.i)
            /\ after.lastDamageBreakdown = <<>>
       /\ isTurnStart(line) => after.lastDamageBreakdown = tp.lastDamageBreakdown

\* two annotations, a turn marker, then two attacks: the first attack carries
\* the later annotation and the second attack none
C33_Witness ==
  /\ pc = "turnsReturn"
  /\ Len(lines) = 10
  /\ lines[6] = DamageBullet(20) /\ lines[7] = DamageBullet(30) /\ isTurnStart(lines[8])
  /\ Len(tp.allEvents) = 2
  /\ tp.allEvents[1].details.damageBreakdown = <<30>>
  /\ "damageBreakdown" \notin DOMAIN tp.allEvents[2].details


\* ---------------------------------------------------------------------------
\* The Pokemon names of a match
\* ---------------------------------------------------------------------------

MaxPokemonLines == 3

PokemonSections ==
  { <<SetupHeader, WonToss(P1), OpeningHand(P1, 7), OpeningHand(P2, 7)>>,
    <<SetupHeader, WonToss(P1), OpeningHand(P1, 7), OpeningHand(P2, 7),
      PlayedPokemon(P2, "Pikachu ex", "Active Spot"), PlayedPokemon(P1, "Charmander", "Active Spot"),
      PlayedPokemon(P2, "Pikachu ex", "Bench")>> }

PokemonAlphabet ==
  { PlayedPokemon(P1, "Charmander", "Bench"),
    Evolved(P1, "Charmander", "Charmeleon"),
    SwitchedIn(P2, "Raichu"),
    UsedAbility(P2, "Pikachu ex", "Resolute Heart"),
    Attack(P1, "Charmeleon", "Ember", P2, "Pikachu ex", 20),
    Attack(P2, "Raichu", "Thunder", P1, "Charizard", 30) }

PokemonLogs ==
  { pre \o <<TurnMarker>> \o body :
      pre \in PokemonSections, body \in SeqsUpTo(PokemonAlphabet, MaxPokemonLines) }

InitPokemon == InitParse(PokemonLogs)

SpecPokemon == InitPokemon /\ [][NextParse]_vars

\* the Pokemon names an event carries, in the order the parser reads them
NamesCarried(event) ==
  CASE event.type \in {"play_pokemon", "switch", "use_ability"} -> <<event.details.pokemonName>>
    [] event.type = "evolve" -> <<event.details.evolvedFrom, event.details.pokemonName>>
    [] event.type = "attack" -> <<event.details.attackingPokemon, event.details.targetPokemon>>
    [] OTHER -> <<>>

RECURSIVE NamesUpTo(_, _)
\* the names carried by the first k events, one event after the other
NamesUpTo(events, k) ==
  IF k = 0 THEN <<>> ELSE NamesUpTo(events, k - 1) \o NamesCarried(events[k])

\* the position at which a name first occurs in a list of names
FirstSeen(names, name) ==
  CHOOSE n \in 1..Len(names) : names[n] = name /\ \A j \in 1..(n - 1) : names[j] # name

\* C34: pokemonInMatch has no duplicates, holds every Pokemon name carried by
\* a play_pokemon, evolve, switch, use_ability or attack event of the match,
\* and lists the names in the order of their first occurrence, those first
\* seen in setup before those first seen in the turns.
C34_PokemonNamesOnceInOrder ==
  Succeeded =>
    LET list == result.data.pokemonInMatch
        names == NamesUpTo(result.data.events, Len(result.data.events))
    IN /\ \A a \in 1..Len(list) : \A b \in 1..Len(list) : list[a] = list[b] => a = b
       /\ \A n \in 1..Len(names) : \E a \in 1..Len(list) : list[a] = names[n]
       /\ \A a \in 1..Len(list) : \E n \in 1..Len(names) : names[n] = list[a]
       /\ \A a \in 1..Len(list) : \A b \in 1..Len(list) :
            a < b => FirstSeen(names, list[a]) < FirstSeen(names, list[b])

C34_Witness ==
  /\ Succeeded
  /\ Len(lines) = 11
  /\ lines[11] = Attack(P1, "Charmeleon", "Ember", P2, "Pikachu ex", 20)
  /\ result.data.pokemonInMatch = <<"Pikachu ex", "Charmander", "Raichu", "Charizard", "Charmeleon">>


\* ---------------------------------------------------------------------------
\* Who goes first
\* ---------------------------------------------------------------------------

MaxOrderLines == 4

OrderAlphabet ==
  { WonToss(P1), WonToss(P2), DecidedGo(P1, "first"), DecidedGo(P2, "second"),
    OpeningHand(P1, 7), OpeningHand(P2, 7) }

OrderLogs ==
  { <<SetupHeader>> \o section \o <<TurnMarker, Attack(P1, "Charmander", "Ember", P2, "Pikachu ex", 20)>> :
      section \in SeqsUpTo(OrderAlphabet, MaxOrderLines) }

InitOrder == InitParse(OrderLogs)

SpecOrder == InitOrder /\ [][NextParse]_vars

\* the positions of the lines of the given shape in the setup section
SetupLinesOf(shape) == { m \in 1..(FirstMarker(lines) - 1) : lines[m].k = shape }

LastOf(S) == CHOOSE m \in S : \A j \in S : j <= m

MarkedFirst(username) ==
  \E k \in 1..2 : setupResult.players[k].username = username /\ setupResult.players[k].isFirst

\* C35: the player marked isFirst is the one who moves first: a player who
\* decided to go second is not marked and the other player is, a player who
\* decided to go first is marked, and without a decision line the winner of
\* the coin toss is marked.
C35_FirstPlayerMovesFirst ==
  ("players" \in DOMAIN setupResult) =>
    LET first == setupResult.players[1].username
        second == setupResult.players[2].username
        Other(u) == IF u = first THEN second ELSE first
        decisions == SetupLinesOf("DecidedGo")
        tosses == SetupLinesOf("WonToss")
    IN IF decisions # {}
       THEN LET decision == lines[LastOf(decisions)]
            IN decision.p \in {first, second} =>
                 IF decision.y = "second"
                 THEN ~MarkedFirst(decision.p) /\ MarkedFirst(Other(decision.p))
                 ELSE MarkedFirst(decision.p)
       ELSE MarkedFirst(lines[LastOf(tosses)].p)


EventsOfPlayer(playerName) ==
  SelectSeq(matchData.events, LAMBDA e : e.player = playerName)

RECURSIVE HopsIn(_, _, _)
\* the stage the while loop of buildEvolutionRelationships counts for `name`
\* on a map without a cycle
HopsIn(chains, name, fuel) ==
  IF ~MapHas(chains, name) \/ fuel = 0 THEN 0
  ELSE LET rest == HopsIn(chains, MapGet(chains, name), fuel - 1)
       IN IF rest < MaxStage THEN rest + 1 ELSE rest

\* reconstructDecks for one player on a MatchData holding `events` only
DeckFrom(events, playerName) ==
  LET cardMap == extractCardsFromEvents(events, playerName)
      chains == ChainsFrom(events, Len(events))
      Staged(entry) ==
        IF entry.value.category # "pokemon" THEN entry
        ELSE LET staged == [entry.value EXCEPT
                              !.evolutionStage = <<HopsIn(chains, entry.key, Len(events))>>]
             IN [entry EXCEPT !.value =
                   IF MapHas(chains, entry.key)
                   THEN [staged EXCEPT !.evolvesFrom = MapGet(chains, entry.key)]
                   ELSE staged]
  IN buildReconstructedDeck(playerName, [k \in 1..Len(cardMap) |-> Staged(cardMap[k])])

\* C37: the deck of a player is the deck the same player gets from a
\* MatchData that holds that player's events and none of the other player's:
\* the other player's events change no card, stage, evolvesFrom or position.
C37_DeckOfOwnEventsOnly ==
  pc = "returned" =>
    \A d \in 1..Len(playerDecks) :
      playerDecks[d].value = DeckFrom(EventsOfPlayer(playerDecks[d].key), playerDecks[d].key)


\* ---------------------------------------------------------------------------
\* sortByEvolutionLine called on a list of Pokemon cards
\* ---------------------------------------------------------------------------

MaxSortCards == 3

SortNames == <<"Charmander", "Charmeleon", "Charizard">>

\* a DeckCard of category pokemon
PokemonCard(name, stage, evolvesFrom) ==
  [name |-> name, category |-> "pokemon", subcategory |-> Undefined, count |-> 1, minCount |-> 1,
   confidence |-> "confirmed", evolutionStage |-> stage, evolvesFrom |-> evolvesFrom]

SortStages == { <<>>, <<0>>, <<1>>, <<2>> }

SortBases == { Undefined } \cup { SortNames[k] : k \in 1..Len(SortNames) }

\* the lists of at most MaxSortCards cards of distinct names, none of them
\* evolving from itself
SortInputs ==
  { cards \in SeqsUpTo({ PokemonCard(SortNames[k], stage, base) :
                           k \in 1..Len(SortNames), stage \in SortStages, base \in SortBases },
                       MaxSortCards) :
      \A a \in 1..Len(cards) :
        /\ cards[a].evolvesFrom # cards[a].name
        /\ \A b \in 1..Len(cards) : cards[a].name = cards[b].name => a = b }

InitSort ==
  /\ lines = <<>>
  /\ pc = "sortByEvolutionLine"
  /\ eventCounter = 0
  /\ su = SetupLocals
  /\ setupResult = NoSetup
  /\ tp = TurnLocals(0, <<JsString(P1), JsString(P2)>>)
  /\ result = NoResult
  /\ previous = NoResult
  /\ matchData = [players |-> <<>>, events |-> <<>>]
  /\ \E cards \in SortInputs : dk = [pokemonCards |-> cards, sorted |-> <<>>]
  /\ playerDecks = <<>>
  /\ sprites = SpriteServiceLoaded
  /\ cardFetcher = CardFetcherLoaded
  /\ app = AppMounted

\* a call of sortByEvolutionLine
SortCards ==
  /\ pc = "sortByEvolutionLine"
  /\ dk' = [dk EXCEPT !.sorted = sortByEvolutionLine(dk.pokemonCards)]
  /\ pc' = "sorted"
  /\ UNCHANGED <<parserVars, apiVars, matchData, playerDecks>>

SpecSort == InitSort /\ [][SortCards]_vars

\* C38: sortByEvolutionLine returns a permutation of its input: of a list of
\* Pokemon cards of distinct names, every card appears exactly once in the
\* list returned, none dropped and none duplicated.
C38_SortIsPermutation ==
  pc = "sorted" =>
    /\ Len(dk.sorted) = Len(dk.pokemonCards)
    /\ \A a \in 1..Len(dk.pokemonCards) :
         Cardinality({ b \in 1..Len(dk.sorted) : dk.sorted[b] = dk.pokemonCards[a] }) = 1


(***************************************************************************)
(* The request queue of the card fetcher, when every timer fires and every *)
(* API call settles                                                        *)
(***************************************************************************)
\* the continuations of fetchCardBatch and of its callers run once the
\* promise they await has settled; a caller may stop calling at any time
SpecCardsFair ==
  /\ InitCards
  /\ [][NextCards]_vars
  /\ WF_vars(SendQuery)
  /\ WF_vars(ApiResponds)
  /\ WF_vars(BatchReturns)

\* the processQueue loops that have not left their while loop: each is
\* awaiting the fetchCardBatch of the batch it took
ActiveLoops ==
  { b \in 1..Len(cardFetcher.batches) :
      cardFetcher.batches[b].owner = 0 /\ cardFetcher.batches[b].at # "returned" }

\* the request of call c is waiting, in the queue or in a batch in flight
Waiting(c) == Len(cardFetcher.calls) >= c /\ cardFetcher.calls[c].at = "awaitQueue"

\* the promise of call c is resolved
Resolved(c) == Len(cardFetcher.calls) >= c /\ cardFetcher.calls[c].at = "returned"

\* at most one loop is active, isProcessingQueue tells whether one is, and
\* one is active whenever the queue holds a request
OneLoopServesQueue ==
  /\ Cardinality(ActiveLoops) <= 1
  /\ cardFetcher.isProcessingQueue <=> ActiveLoops # {}
  /\ Len(cardFetcher.requestQueue) > 0 => ActiveLoops # {}

\* C39: under any interleaving of the calls of fetchCard and fetchCards, at
\* most one processQueue loop is active at a time, a loop is active whenever
\* the request queue is not empty, and every request queueFetch has enqueued
\* is eventually resolved.
C39_QueuedRequestsResolve ==
  /\ []OneLoopServesQueue
  /\ \A c \in 1..MaxCardCalls : Waiting(c) ~> Resolved(c)

\* a request enqueued while the first batch was in flight has been resolved
\* by the second round of the same loop
C39_Witness ==
  /\ Len(cardFetcher.batches) = 2
  /\ cardFetcher.batches[1].owner = 0 /\ cardFetcher.batches[2].owner = 0
  /\ Len(cardFetcher.batches[1].requests) = 1
  /\ cardFetcher.batches[2].requests[1].call = 2
  /\ cardFetcher.calls[2].via = "fetchCards"
  /\ cardFetcher.calls[2].at = "returned"
  /\ ~cardFetcher.isProcessingQueue


(***************************************************************************)
(* The provider under any interleaving of the user's actions and of the    *)
(* sprite results                                                          *)
(***************************************************************************)
InitApp == InitParse({<<>>})

SpecApp == InitApp /\ [][NextApp]_vars

\* the fetches still awaiting their sprites
InFlight == { f \in 1..Len(app.fetches) : app.fetches[f].at = "awaitSprites" }

\* the fetches started before the last call of submitLog or clearLog
Superseded == { f \in 1..Len(app.fetches) : app.fetches[f].epoch < app.epoch }

\* the result of fetch f arrives in this step
Arrives(f) ==
  /\ f \in InFlight
  /\ app'.fetches = [app.fetches EXCEPT ![f].at = "done"]

\* the result of a superseded fetch leaves the state as it is
StaleResultsDropped == \A f \in Superseded : Arrives(f) => app'.state = app.state

\* since clearLog was called, and until the next action, the state is the
\* initial state
ClearedStaysInitial == app.last = "clearLog" => app.state = initialState

\* isLoading is false only when no fetch is in flight
IdleWhenNotLoading == ~app.state.isLoading => InFlight = {}

\* C40: the result of a sprite fetch that a later clearLog or submitLog has
\* superseded does not modify the state, the state is the initial state from
\* a clearLog until the next action, and isLoading is false only when no
\* fetch is in flight.
C40_StaleResultsNeverReachState ==
  /\ [][StaleResultsDropped]_vars
  /\ []ClearedStaysInitial
  /\ []IdleWhenNotLoading

====
